---- MODULE Spec2Model ----
(***************************************************************************)
(* kumaview: the sync-and-scheduling subsystem.                            *)
(*                                                                         *)
(*   Spec            SchedulerService: start / stop / updateConfig, the    *)
(*                   warm-up timeout, the recurring interval and the       *)
(*                   scheduled runs (scheduler-service.ts 24-121, 178-188) *)
(*   SpecBatch       one syncAllSources() call: batches, the settle-all    *)
(*                   join, the results (scheduler-service.ts 123-176)      *)
(*   SpecSync        one SyncEngine.syncSource() call: retries, reconcile, *)
(*                   heartbeat fetch, bookkeeping (heartbeat-cache.ts      *)
(*                   79-286), with sync_history / sync_metrics inserts     *)
(*                   that succeed                                          *)
(*   SpecSyncFaulty  the same call when those inserts may throw            *)
(*                                                                         *)
(* Node runs one callback at a time: every action below is one macrotask   *)
(* (a route handler, a timer callback, an I/O completion) together with    *)
(* the promise continuations it releases.                                  *)
(***************************************************************************)
EXTENDS Integers, Sequences, FiniteSets, TLC

(* ---------------------------------------------------------------------- *)
(* Bounds of the model                                                     *)
(* ---------------------------------------------------------------------- *)
MaxTimers == 5        \* timers the runtime hands out in one behaviour
MaxRuns == 3          \* scheduled runs started in one behaviour
MaxSources == 7       \* rows of uptime_kuma_sources
MaxConcurrent == 3    \* largest concurrentSyncs
MaxRetries == 3       \* largest options.maxRetries
MaxMonitors == 2      \* monitors the remote status page lists
MaxSyncs == 2         \* syncSource() calls against one unchanged remote page
MaxBeats == 2         \* heartbeats the page carries inline for a monitor
MaxManualSources == 2 \* rows of uptime_kuma_sources when syncs are requested
MaxPosts == 2         \* requests the sync route handles in one behaviour
MaxAgeings == 1       \* cache intervals the clock passes in one behaviour
MaxCached == 2        \* results the metrics cache holds at a time
MaxStamped == 1       \* stamped rows a window query reads
MaxBatches == 5       \* batches one syncAllSources() call is followed for
MaxLoopSources == 3   \* sources of a call with a stored concurrentSyncs
MaxSamples == 3       \* samples recorded in one behaviour
MaxDurations == 101   \* successful samples a performance query reads
MaxSuccesses == 19    \* successful samples a health check reads
MaxFailures == 3      \* failed samples a health check reads
MaxClock == 3         \* milliseconds that pass in one behaviour of the cache
MaxGets == 2          \* get() calls on the cache in one behaviour
MaxSubscribers == 2   \* callbacks handed to onProgress()
MaxEvents == 2        \* updateProgress() calls in one behaviour

(* ---------------------------------------------------------------------- *)
(* Program constants                                                       *)
(* ---------------------------------------------------------------------- *)
MinIntervalSeconds == 30
WarmupDelayMs == 10000
DefaultIntervalSeconds == 300
DefaultConcurrentSyncs == 3
BaseDelayMs == 1000
RouteDefaultInterval == 300
RouteMinInterval == 30
MaxAverageDurationMs == 30000
DefaultTTL == 300000

VARIABLES
    \* SchedulerService fields
    timeoutId,      \* this.timeoutId: 0 is null, else the id of a timer
    intervalId,     \* this.intervalId: 0 is null, else the id of a timer
    isRunning,      \* this.isRunning
    lastRun,        \* this.lastRun: 0 is null, else the stamp of a run
    config,         \* this.config
    settings,       \* the settings row "scheduler_config" (NoRow when absent)
    \* the runtime
    timers,         \* the timers armed in the event loop
    nextTimer,      \* the next timer id the runtime hands out
    runs,           \* scheduled runSync() calls awaiting syncAllSources()
    nextRun,        \* the next run stamp
    called,         \* the last call or callback: what it was and was given
    \* one syncAllSources() call
    sourceRows,     \* the rows of uptime_kuma_sources, in SELECT order
    behaviour,      \* how the sync of each source ended ("pending" before)
    bpc,            \* where the call is: idle, batch, pause, returned
    loaded,         \* const sources
    batchSize,      \* const batchSize
    bi,             \* the loop variable i
    batchNo,        \* the number of batches dispatched so far
    batch,          \* const batch
    promises,       \* batchPromises, one settlement state per batch entry
    inflight,       \* per-source syncs dispatched and not yet settled
    currentJobs,    \* this.currentJobs (its keys)
    results,        \* const results
    dispatched,     \* the batches dispatched so far, in order
    settleOrder,    \* batch positions in the order their promises settled
    isSyncing,      \* the sync engine's this.isSyncing
    currentSyncId,  \* the sync engine's this.currentSyncId (NoSync is null)
    \* one syncSource() call of the sync engine
    remote,         \* what the remote status page serves (the environment)
    dbFaults,       \* whether sync_history / sync_metrics inserts may throw
    options,        \* finalOptions
    spc,            \* where the call is
    attempt,        \* withRetry: attempt
    lastError,      \* withRetry: lastError (its message)
    failures,       \* the error of every failed attempt, in order
    backoffs,       \* the delays withRetry slept, in order
    attemptMonitors, \* performSourceSync: monitorsUpdated
    hbOutcome,      \* how the heartbeat-endpoint fetch of the call ended
    monitors,       \* the monitors table
    hbCache,        \* the heartbeat cache, by source id
    syncHistory,    \* the sync_history rows of the call
    syncMetrics,    \* the sync_metrics rows of the call
    syncResult,     \* what syncSource() resolved with
    thrown,         \* what syncSource() rejected with
    progress,       \* the statuses updateProgress() published, in order
    abortTimer,     \* whether fetchWithTimeout's abort timer is pending
    \* reconcile runs one after the other against an unchanged remote page
    inlineData,     \* the page with inline heartbeats (the environment)
    heartbeatRows,  \* the monitor_heartbeats table, in insertion order
    syncCount,      \* the syncSource() calls made so far
    path,           \* which syncSource() is called: "endpoint" or "inline"
    baseline,       \* the tables as the first reconciling call left them
    \* the scheduler route
    response,       \* the status of the last response (0 before any)
    \* SyncMetricsCollector
    samples,        \* the sync_metrics rows of every source, oldest first
    metricsCache,   \* this.metricsCache, by cache key (NoCached when absent)
    returned,       \* what the last metrics query resolved with
    \* PersistentCache
    now,            \* Date.now(), in milliseconds since the process started
    memoryCache,    \* this.memoryCache, by prefixed key
    cacheEntries,   \* the cache_entries table, by key
    hitCount,       \* this.hitCount
    missCount,      \* this.missCount
    got,            \* what the last get() resolved with
    lastSet,        \* per key, when it was last set and with which options
    \* SyncEngine progress subscriptions
    handlers,          \* what each subscriber's callback does when called
    progressCallbacks, \* this.progressCallbacks, in registration order
    received,          \* per subscriber, the events its callback was given
    published,         \* the updateProgress() calls made so far
    audience,          \* the subscribers registered when the last one began
    threw,             \* the subscribers whose callback threw in the last one
    unregistered,      \* the subscribers whose unregister function was called
    late,              \* the subscribers called after their unregister call
    escaped            \* whether an updateProgress() call threw

schedVars == <<timeoutId, intervalId, isRunning, lastRun, config, settings,
               timers, nextTimer, runs, nextRun, called>>

batchVars == <<sourceRows, behaviour, bpc, loaded, batchSize, bi, batchNo,
               batch, promises, inflight, currentJobs, results, dispatched,
               settleOrder, isSyncing, currentSyncId>>

syncVars == <<remote, dbFaults, options, spc, attempt, lastError, failures,
              backoffs, attemptMonitors, hbOutcome, monitors, hbCache,
              syncHistory, syncMetrics, syncResult, thrown, progress,
              abortTimer>>

resyncVars == <<inlineData, heartbeatRows, syncCount, path, baseline>>

metricVars == <<samples, metricsCache, returned>>

cacheVars == <<now, memoryCache, cacheEntries, hitCount, missCount, got,
               lastSet>>

progressVars == <<handlers, progressCallbacks, received, published, audience,
                  threw, unregistered, late, escaped>>

otherVars == <<resyncVars, response, metricVars, cacheVars, progressVars>>

vars == <<schedVars, batchVars, syncVars, otherVars>>

\* what the cache leaves alone
outsideCache == <<timeoutId, intervalId, isRunning, lastRun, config, settings,
                  timers, nextTimer, runs, nextRun, batchVars, syncVars,
                  resyncVars, response, metricVars, progressVars>>

\* what the progress subscriptions leave alone
outsideProgress == <<schedVars, batchVars, syncVars, resyncVars, response,
                     metricVars, cacheVars>>

(* ---------------------------------------------------------------------- *)
(* SchedulerConfig and the partial configs callers pass                    *)
(* ---------------------------------------------------------------------- *)
NoRow == [norow |-> TRUE]
Undefined == [undefined |-> TRUE]

IntervalValues == {5, 30, 60}

DefaultConfig ==
    [intervalSeconds |-> DefaultIntervalSeconds,
     enabled |-> FALSE,
     concurrentSyncs |-> DefaultConcurrentSyncs]

\* Partial<SchedulerConfig> objects: any subset of the fields a caller sets
PartialConfigs ==
    {[intervalSeconds |-> s] : s \in IntervalValues}
      \cup {[enabled |-> e] : e \in BOOLEAN}
      \cup {[intervalSeconds |-> s, enabled |-> e] :
              s \in IntervalValues, e \in BOOLEAN}

\* { ...this.config, ...newConfig }
Merge(c, p) == [k \in DOMAIN c |-> IF k \in DOMAIN p THEN p[k] ELSE c[k]]

(* ---------------------------------------------------------------------- *)
(* SchedulerService                                                        *)
(* ---------------------------------------------------------------------- *)
\* a call of the service or a callback of the runtime, with its argument
Call(op, arg) == [op |-> op, arg |-> arg]
NoCall == Call("none", Undefined)

\* clearTimeout / clearInterval of the ids the service holds
Cancelled(ts, tid, iid) == {t \in ts : t.id \notin ({tid, iid} \ {0})}

\* the body of start(): the state it leaves, given the state it finds
StartNeedsStop(run, tid, iid) == run \/ iid # 0 \/ tid # 0

\* a start() without the floor
NoClamp(c) == c

ClampInterval(c) ==
    IF c.intervalSeconds < MinIntervalSeconds
    THEN [c EXCEPT !.intervalSeconds = MinIntervalSeconds]
    ELSE c

\* the config start() ends with
StartConfig(c, p) == ClampInterval(IF p = Undefined THEN c ELSE Merge(c, p))

\* the settings row start() leaves: saveConfig() runs only on the two branches
StartSettings(c, p, row) ==
    IF p # Undefined \/ c.intervalSeconds < MinIntervalSeconds
    THEN StartConfig(c, p)
    ELSE row

WarmupTimer(id) == [id |-> id, kind |-> "timeout", ms |-> WarmupDelayMs]
IntervalTimer(id, c) ==
    [id |-> id, kind |-> "interval", ms |-> c.intervalSeconds * 1000]

\* start(config?) from the state (c, row, ts, tid, iid, run)
DoStart(p, c, row, ts, tid, iid, run) ==
    /\ nextTimer <= MaxTimers
    /\ LET kept == IF StartNeedsStop(run, tid, iid)
                   THEN Cancelled(ts, tid, iid)
                   ELSE ts
       IN timers' = kept \cup {WarmupTimer(nextTimer)}
    /\ timeoutId' = nextTimer
    /\ intervalId' = IF StartNeedsStop(run, tid, iid) THEN 0 ELSE iid
    /\ nextTimer' = nextTimer + 1
    /\ config' = StartConfig(c, p)
    /\ settings' = StartSettings(c, p, row)
    /\ isRunning' = TRUE
    /\ UNCHANGED <<lastRun, runs, nextRun>>

Start ==
    \E p \in PartialConfigs \cup {Undefined} :
        /\ DoStart(p, config, settings, timers, timeoutId, intervalId,
                   isRunning)
        /\ called' = Call("start", p)

\* stop()
DoStop ==
    /\ timers' = Cancelled(timers, timeoutId, intervalId)
    /\ timeoutId' = 0
    /\ intervalId' = 0
    /\ isRunning' = FALSE
    /\ UNCHANGED <<lastRun, config, settings, nextTimer, runs, nextRun>>

Stop ==
    /\ DoStop
    /\ called' = Call("stop", Undefined)

\* updateConfig(newConfig): restart when running and the interval changed
RestartNeeded(run, p, oldInterval) ==
    /\ run
    /\ "intervalSeconds" \in DOMAIN p
    /\ p.intervalSeconds # 0
    /\ p.intervalSeconds # oldInterval

\* updateConfig(newConfig): merge, saveConfig(), then stop() and start()
DoUpdateConfig(p) ==
    LET merged == Merge(config, p)
    IN IF RestartNeeded(isRunning, p, config.intervalSeconds)
       THEN DoStart(Undefined, merged, merged,
                    Cancelled(timers, timeoutId, intervalId), 0, 0, FALSE)
       ELSE /\ config' = merged
            /\ settings' = merged
            /\ UNCHANGED <<timeoutId, intervalId, isRunning, lastRun,
                           timers, nextTimer, runs, nextRun>>

UpdateConfig ==
    \E p \in PartialConfigs :
        /\ DoUpdateConfig(p)
        /\ called' = Call("updateConfig", p)

\* a runSync() that does not look at the flag
RunSyncAlways(c) == TRUE

\* runSync() up to its await: nothing when disabled, else stamp lastRun and
\* call syncAllSources()
RunSyncStarts(c) == c.enabled

\* the warm-up callback fires: timeoutId = null, then await runSync()
WarmupFire ==
    \E t \in timers :
        /\ t.kind = "timeout"
        /\ called' = Call("fire", t)
        /\ IF RunSyncStarts(config)
           THEN /\ nextRun <= MaxRuns
                /\ timers' = timers \ {t}
                /\ timeoutId' = 0
                /\ lastRun' = nextRun
                /\ runs' = runs \cup {[id |-> nextRun, from |-> "warmup"]}
                /\ nextRun' = nextRun + 1
                /\ UNCHANGED <<intervalId, isRunning, config, settings,
                               nextTimer>>
           ELSE \* runSync() returns at once; the callback arms the interval
                /\ nextTimer <= MaxTimers
                /\ timers' = (timers \ {t})
                                \cup {IntervalTimer(nextTimer, config)}
                /\ timeoutId' = 0
                /\ intervalId' = nextTimer
                /\ nextTimer' = nextTimer + 1
                /\ UNCHANGED <<isRunning, lastRun, config, settings, runs,
                               nextRun>>

\* the recurring timer fires: runSync()
IntervalFire ==
    \E t \in timers :
        /\ t.kind = "interval"
        /\ called' = Call("fire", t)
        /\ IF RunSyncStarts(config)
           THEN /\ nextRun <= MaxRuns
                /\ lastRun' = nextRun
                /\ runs' = runs \cup {[id |-> nextRun, from |-> "interval"]}
                /\ nextRun' = nextRun + 1
                /\ UNCHANGED <<timeoutId, intervalId, isRunning, config,
                               settings, timers, nextTimer>>
           ELSE UNCHANGED <<timeoutId, intervalId, isRunning, lastRun,
                           config, settings, timers, nextTimer, runs,
                           nextRun>>

\* syncAllSources() of a scheduled run returns (or throws): runSync() ends;
\* the warm-up callback then arms the recurring timer
RunReturns ==
    \E r \in runs :
        /\ runs' = runs \ {r}
        /\ called' = Call("return", r)
        /\ IF r.from = "warmup"
           THEN /\ nextTimer <= MaxTimers
                /\ timers' = timers \cup {IntervalTimer(nextTimer, config)}
                /\ intervalId' = nextTimer
                /\ nextTimer' = nextTimer + 1
           ELSE UNCHANGED <<timers, intervalId, nextTimer>>
        /\ UNCHANGED <<timeoutId, isRunning, lastRun, config, settings,
                       nextRun>>

(* ---------------------------------------------------------------------- *)
(* The scheduler route: POST { action, interval, enabled }                 *)
(* ---------------------------------------------------------------------- *)
RouteIntervals == IntervalValues \cup {0}

\* the request bodies: "start" and "update-config" with or without interval
\* and enabled; the actions that read neither field are sent bare
Bodies ==
    LET actions == {"start", "update-config"}
    IN {[action |-> a] :
          a \in actions \cup {"stop", "status", "restart"}}
         \cup {[action |-> a, interval |-> i] :
                 a \in actions, i \in RouteIntervals}
         \cup {[action |-> a, enabled |-> e] : a \in actions, e \in BOOLEAN}
         \cup {[action |-> a, interval |-> i, enabled |-> e] :
                 a \in actions, i \in RouteIntervals, e \in BOOLEAN}

\* const syncInterval = interval || 300
SyncInterval(body) ==
    IF "interval" \in DOMAIN body /\ body.interval # 0
    THEN body.interval
    ELSE RouteDefaultInterval

\* the config object the route builds: `first` when the action is "start"
\* (intervalSeconds always set), else the fields the body defines
RouteConfig(body, first) ==
    LET keys == (IF first \/ "interval" \in DOMAIN body
                 THEN {"intervalSeconds"} ELSE {})
                  \cup (IF "enabled" \in DOMAIN body THEN {"enabled"} ELSE {})
    IN [k \in keys |->
          IF k = "enabled" THEN body.enabled
          ELSE IF first THEN SyncInterval(body) ELSE body.interval]

\* the "start" branch answers 400 below the minimum
StartRejected(body) == SyncInterval(body) < RouteMinInterval

\* POST: one request handled to its response
SchedulerPost ==
    \E body \in Bodies :
        /\ called' = Call("POST", body)
        /\ CASE body.action = "start" ->
                  IF StartRejected(body)
                  THEN /\ response' = 400
                       /\ UNCHANGED <<timeoutId, intervalId, isRunning,
                                      lastRun, config, settings, timers,
                                      nextTimer, runs, nextRun>>
                  ELSE /\ DoStart(RouteConfig(body, TRUE), config, settings,
                                  timers, timeoutId, intervalId, isRunning)
                       /\ response' = 200
             [] body.action = "stop" ->
                  /\ DoStop
                  /\ response' = 200
             [] body.action = "status" ->
                  /\ response' = 200
                  /\ UNCHANGED <<timeoutId, intervalId, isRunning, lastRun,
                                 config, settings, timers, nextTimer, runs,
                                 nextRun>>
             [] body.action = "update-config" ->
                  /\ DoUpdateConfig(RouteConfig(body, FALSE))
                  /\ response' = 200
             [] OTHER ->
                  /\ response' = 400
                  /\ UNCHANGED <<timeoutId, intervalId, isRunning, lastRun,
                                 config, settings, timers, nextTimer, runs,
                                 nextRun>>
        /\ UNCHANGED <<batchVars, syncVars, resyncVars, metricVars,
                       cacheVars, progressVars>>

(* ---------------------------------------------------------------------- *)
(* syncAllSources(): one call, its batches and the settle-all join         *)
(* ---------------------------------------------------------------------- *)
Min(a, b) == IF a <= b THEN a ELSE b

\* the index slice() reads an argument as: a negative one counts from the
\* end, and neither end of the sequence is passed
RelativeIndex(idx, len) ==
    IF idx < 0
    THEN (IF len + idx < 0 THEN 0 ELSE len + idx)
    ELSE Min(idx, len)

\* Array.prototype.slice(from, to), 0-based bounds
Slice(s, from, to) ==
    LET f == RelativeIndex(from, Len(s))
        t == RelativeIndex(to, Len(s))
    IN IF f >= t THEN <<>> ELSE [k \in 1..(t - f) |-> s[f + k]]

\* a slice one entry too long
BatchOfWide(srcs, i, size) == Slice(srcs, i, i + size + 1)

\* sources.slice(i, i + batchSize)
BatchOf(srcs, i, size) == Slice(srcs, i, i + size)

NoValue == [sourceId |-> 0, success |-> FALSE, monitorsUpdated |-> 0,
            heartbeatsFetched |-> 0, error |-> "undefined"]
NoReason == [message |-> "undefined"]
Pending == [status |-> "pending", value |-> NoValue, reason |-> NoReason]

SyncBehaviours == {"ok", "failed", "throws"}

\* how the promise of syncSourceWithJobTracking(src) settles
Settlement(src, b) ==
    CASE b = "ok" ->
           [status |-> "fulfilled",
            value |-> [sourceId |-> src, success |-> TRUE,
                       monitorsUpdated |-> 1, heartbeatsFetched |-> 0,
                       error |-> "undefined"],
            reason |-> NoReason]
      [] b = "failed" ->
           [status |-> "fulfilled",
            value |-> [sourceId |-> src, success |-> FALSE,
                       monitorsUpdated |-> 0, heartbeatsFetched |-> 0,
                       error |-> "Failed to fetch monitors"],
            reason |-> NoReason]
      [] OTHER ->
           [status |-> "rejected", value |-> NoValue,
            reason |-> [message |-> "insert failed"]]

\* one entry of batchResults.forEach: the value, or the converted rejection
ToResult(src, p) ==
    IF p.status = "fulfilled"
    THEN p.value
    ELSE [sourceId |-> src, success |-> FALSE, monitorsUpdated |-> 0,
          heartbeatsFetched |-> 0, error |-> p.reason.message]

\* a forEach without the else branch: rejected entries push nothing
CollectFulfilled(b, ps) ==
    LET F[k \in 0..Len(b)] ==
          IF k = 0 THEN <<>>
          ELSE IF ps[k].status = "fulfilled"
               THEN Append(F[k - 1], ps[k].value)
               ELSE F[k - 1]
    IN F[Len(b)]

\* results pushed as the promises settle instead of in batch order
CollectAsSettled(b, ps) ==
    [k \in 1..Len(settleOrder) |->
        IF ps[settleOrder[k]].status = "fulfilled"
        THEN ps[settleOrder[k]].value
        ELSE [sourceId |-> b[settleOrder[k]], success |-> FALSE,
              monitorsUpdated |-> 0, heartbeatsFetched |-> 0,
              error |-> ps[settleOrder[k]].reason.message]]

\* batchResults.forEach((result, index) => results.push(...))
Collect(b, ps) == [k \in 1..Len(b) |-> ToResult(b[k], ps[k])]

\* a join that resolves with the first settlement (Promise.race)
FirstSettled(ps) == \E k \in 1..Len(ps) : ps[k].status # "pending"

\* Promise.allSettled(batchPromises) resolves
BatchSettled(ps) == \A k \in 1..Len(ps) : ps[k].status # "pending"

\* this.currentSyncId = null; the id of a sync is the dispatch it belongs to
NoSync == [src |-> 0, batch |-> 0]

\* batch.map(source => this.syncSourceWithJobTracking(source)); every
\* syncSource() call sets this.isSyncing and this.currentSyncId as it starts
DispatchBatch(srcs, i, size, no) ==
    LET b == BatchOf(srcs, i, size)
    IN /\ batch' = b
       /\ isSyncing' = (b # <<>> \/ isSyncing)
       /\ currentSyncId' = IF b = <<>>
                           THEN currentSyncId
                           ELSE [src |-> b[Len(b)], batch |-> no]
       /\ promises' = [k \in 1..Len(b) |-> Pending]
       /\ inflight' = inflight \cup
                        {[src |-> b[k], batch |-> no] : k \in 1..Len(b)}
       /\ currentJobs' = currentJobs \cup {b[k] : k \in 1..Len(b)}
       /\ dispatched' = Append(dispatched, b)
       /\ settleOrder' = <<>>
       /\ batchNo' = no
       /\ bi' = i
       /\ bpc' = "batch"

\* a job entry removed only when the sync fulfilled (no finally)
JobsAfterFulfil(jobs, src, b) == IF b = "throws" THEN jobs ELSE jobs \ {src}

\* syncSourceWithJobTracking: finally { this.currentJobs.delete(source.id) },
\* whichever way b the sync settled
JobsAfter(jobs, src, b) == jobs \ {src}

\* getStatus().currentJobs: one entry per value of the job map
StatusJobs(jobs) == {[sourceId |-> id] : id \in jobs}

\* syncAllSources() is called: load the sources, dispatch the first batch
DoSyncAllSources ==
    /\ bpc = "idle"
    /\ loaded' = sourceRows
    /\ batchSize' = config.concurrentSyncs
    /\ results' = <<>>
    /\ IF 0 < Len(sourceRows)
       THEN DispatchBatch(sourceRows, 0, config.concurrentSyncs, 1)
       ELSE /\ bpc' = "returned"
            /\ UNCHANGED <<bi, batchNo, batch, promises, inflight,
                           currentJobs, dispatched, settleOrder, isSyncing,
                           currentSyncId>>
    /\ UNCHANGED <<sourceRows, behaviour>>

SyncAllSources ==
    /\ DoSyncAllSources
    /\ UNCHANGED <<schedVars, syncVars>>

\* a loop that ends once the scheduler is stopped
MoreBatchesWhileRunning(i, size, n, run) == run /\ i + size < n

\* if (i + batchSize < sources.length): another batch follows, whatever
\* this.isRunning is
MoreBatches(i, size, n, run) == i + size < n

\* the sync of one dispatched source settles; when it is the last of the
\* batch the join resolves, the results are pushed, and the call pauses
\* before the next batch or returns
SettleSync ==
    \E x \in {y \in inflight : y.batch >= 1}, b \in SyncBehaviours :
        LET k == CHOOSE j \in 1..Len(batch) : batch[j] = x.src
            ps == IF x.batch = batchNo
                  THEN [promises EXCEPT ![k] = Settlement(x.src, b)]
                  ELSE promises
        IN /\ inflight' = inflight \ {x}
           /\ isSyncing' = FALSE
           /\ currentSyncId' = NoSync
           /\ currentJobs' = JobsAfter(currentJobs, x.src, b)
           /\ behaviour' = [behaviour EXCEPT ![x.src] = b]
           /\ promises' = ps
           /\ settleOrder' = IF x.batch = batchNo
                             THEN Append(settleOrder, k) ELSE settleOrder
           /\ IF bpc = "batch" /\ BatchSettled(ps)
              THEN /\ results' = results \o Collect(batch, ps)
                   /\ bpc' = IF MoreBatches(bi, batchSize, Len(loaded),
                                            isRunning)
                             THEN "pause" ELSE "returned"
              ELSE UNCHANGED <<results, bpc>>
           /\ UNCHANGED <<sourceRows, loaded, batchSize, bi, batchNo, batch,
                          dispatched, schedVars, syncVars>>

\* the pause between batches ends: i += batchSize, the next batch starts
PauseEnds ==
    /\ bpc = "pause"
    /\ DispatchBatch(loaded, bi + batchSize, batchSize, batchNo + 1)
    /\ UNCHANGED <<sourceRows, behaviour, loaded, batchSize, results,
                   schedVars, syncVars>>

\* Promise.allSettled([]) over a batch without a source resolves with no
\* result; the call pauses before the next batch or returns
EmptyBatchSettles ==
    /\ bpc = "batch"
    /\ batch = <<>>
    /\ bpc' = IF MoreBatches(bi, batchSize, Len(loaded), isRunning)
              THEN "pause" ELSE "returned"
    /\ UNCHANGED <<sourceRows, behaviour, loaded, batchSize, bi, batchNo,
                   batch, promises, inflight, currentJobs, results,
                   dispatched, settleOrder, isSyncing, currentSyncId,
                   schedVars, syncVars>>

BatchIdle ==
    /\ bpc = "idle"
    /\ loaded = <<>>
    /\ batchSize = 0
    /\ bi = 0
    /\ batchNo = 0
    /\ batch = <<>>
    /\ promises = <<>>
    /\ inflight = {}
    /\ currentJobs = {}
    /\ results = <<>>
    /\ dispatched = <<>>
    /\ settleOrder = <<>>
    /\ isSyncing = FALSE
    /\ currentSyncId = NoSync

(* ---------------------------------------------------------------------- *)
(* The sync route: POST { source_id } and the manual sync methods          *)
(* ---------------------------------------------------------------------- *)
\* a lookup that finds a row for every id
AlwaysExists(rows, id) == TRUE

\* SELECT * FROM uptime_kuma_sources WHERE id = ? returns a row
SourceExists(rows, id) == \E k \in 1..Len(rows) : rows[k] = id

\* a per-source sync dispatched by syncSourceNow() belongs to no batch
ManualJob(id) == [src |-> id, batch |-> 0]

\* POST of the sync route: source_id 0 stands for a body without source_id;
\* syncSourceNow(source_id) or syncAllSourcesNow() up to its first await
SyncPost ==
    \E id \in 0..(MaxManualSources + 1) :
        /\ nextRun <= MaxPosts
        /\ nextRun' = nextRun + 1
        /\ called' = Call("sync", [source_id |-> id])
        /\ IF id # 0
           THEN IF SourceExists(sourceRows, id)
                THEN /\ ManualJob(id) \notin inflight
                     /\ lastRun' = nextRun
                     /\ inflight' = inflight \cup {ManualJob(id)}
                     /\ isSyncing' = TRUE
                     /\ currentSyncId' = ManualJob(id)
                     /\ currentJobs' = currentJobs \cup {id}
                     /\ UNCHANGED <<response, sourceRows, behaviour, bpc,
                                    loaded, batchSize, bi, batchNo, batch,
                                    promises, results, dispatched,
                                    settleOrder>>
                ELSE \* throws not found: the route answers 500
                     /\ response' = 500
                     /\ UNCHANGED <<lastRun, batchVars>>
           ELSE /\ lastRun' = nextRun
                /\ DoSyncAllSources
                /\ response' = IF bpc' = "returned" THEN 200 ELSE response
        /\ UNCHANGED <<timeoutId, intervalId, isRunning, config, settings,
                       timers, nextTimer, runs, syncVars, resyncVars,
                       metricVars, cacheVars, progressVars>>

\* the sync of syncSourceNow() settles: the job is removed, the route answers
ManualSettles ==
    \E x \in {y \in inflight : y.batch = 0}, b \in SyncBehaviours :
        /\ inflight' = inflight \ {x}
        /\ isSyncing' = FALSE
        /\ currentSyncId' = NoSync
        /\ currentJobs' = JobsAfter(currentJobs, x.src, b)
        /\ response' = IF b = "throws" THEN 500 ELSE 200
        /\ UNCHANGED <<sourceRows, behaviour, bpc, loaded, batchSize, bi,
                       batchNo, batch, promises, results, dispatched,
                       settleOrder, schedVars, syncVars, resyncVars,
                       metricVars, cacheVars, progressVars>>

(* ---------------------------------------------------------------------- *)
(* SyncEngine.syncSource(): one call for the source TheSource              *)
(* ---------------------------------------------------------------------- *)
TheSource == [id |-> 1, slug |-> "main"]
OtherSource == [id |-> 2, slug |-> "other"]

NoEntry == [heartbeatList |-> "none"]
\* an entry cached by an earlier sync: the heartbeats of a monitor the page
\* lists no longer
StaleEntry(src) == [heartbeatList |-> {MaxMonitors + 1 + src}]
NoResult == [sourceId |-> 0, success |-> FALSE, monitorsUpdated |-> 0,
             heartbeatsFetched |-> 0, error |-> <<"no result">>]

\* error messages: a text is the sequence of its parts
NoError == <<"undefined">>
NotThrown == <<"none">>
AbortMessage == <<"This operation was aborted">>
HttpMessage(slug) == <<"Failed to fetch monitors: ", "Service Unavailable",
                       ". Make sure the status page slug ", slug,
                       " is correct.">>
ReconcileMessage == <<"monitors insert failed">>
\* what response.json() rejects with on a body that is not JSON
JsonMessage == <<"Unexpected end of JSON input">>
HistoryMessage == <<"sync_history insert failed">>
MetricsMessage == <<"sync_metrics insert failed">>
TypeErrorMessage == <<"Cannot read properties of undefined">>

MonitorsOutcomes == {"timeout", "http_error", "ok"}
HeartbeatOutcomes == {"throws", "timeout", "not_ok", "ok"}

\* the outcomes a bookkeeping insert can have (TRUE: the row is written)
WriteOutcomes == IF dbFaults THEN BOOLEAN ELSE {TRUE}

\* a column value: <<>> is NULL
Null == <<>>

\* monitor.url || null, monitor.type || null: a missing or empty text is NULL
TextOrNull(v) == IF v = "" THEN Null ELSE <<v>>

\* monitor.interval || null: a missing or zero number is NULL
NumberOrNull(v) == IF v = 0 THEN Null ELSE <<v>>

\* the row the statement binds for one monitor of the page
MonitorRow(m, src) ==
    [id |-> m.id, source_id |-> src.id, name |-> m.name,
     url |-> TextOrNull(m.url), type |-> TextOrNull(m.type),
     interval |-> NumberOrNull(m.interval)]

\* an upsert whose conflict key is the monitor id alone
UpsertById(rows, m, src) ==
    {r \in rows : r.id # m.id} \cup {MonitorRow(m, src)}

\* INSERT ... ON CONFLICT(id, source_id) DO UPDATE of one monitor
Upsert(rows, m, src) ==
    {r \in rows : ~(r.id = m.id /\ r.source_id = src.id)}
       \cup {MonitorRow(m, src)}

\* the monitor rows after the first n entries of list were written
RECURSIVE Reconciled(_, _, _, _)
Reconciled(rows, list, n, src) ==
    IF n = 0 THEN rows
    ELSE Upsert(Reconciled(rows, list, n - 1, src), list[n], src)

\* every entry the page lists, published or not
AllEntries(page) == page.monitorList

\* the entries the reconcile loop visits: none unless the page is published
MonitorEntries(page) == IF page.published THEN page.monitorList ELSE <<>>

\* the error of the first failed attempt, kept over the later ones
FirstError(prev, err) == IF prev = NoError THEN err ELSE prev

\* withRetry: lastError = error
NextLastError(prev, err) == err

\* a delay that does not grow with the attempt
BackoffFlat(n) == BaseDelayMs

\* withRetry: baseDelay * Math.pow(2, attempt - 1)
BackoffDelay(n) == BaseDelayMs * 2 ^ (n - 1)

\* recordSyncHistory / recordSyncMetrics rows
HistoryRow(status, mu, hb, err) ==
    [status |-> status, monitors_updated |-> mu, heartbeats_fetched |-> hb,
     error_message |-> err]
MetricsRow(ok, mu, hb, err) ==
    [success |-> ok, monitors_updated |-> mu, heartbeats_fetched |-> hb,
     error_message |-> err]

Ending(pc, res, err, hist, met) ==
    [pc |-> pc, result |-> res, thrown |-> err, history |-> hist,
     metrics |-> met]

\* the catch block of syncSource(): a failed history row, a failure sample,
\* then the success:false result; an insert that throws rejects the call
CatchBlock(hist, met, msg, h2, m2) ==
    IF ~h2 THEN Ending("rejected", NoResult, HistoryMessage, hist, met)
    ELSE LET hist2 == Append(hist, HistoryRow("failed", 0, 0, msg))
         IN IF ~m2
            THEN Ending("rejected", NoResult, MetricsMessage, hist2, met)
            ELSE Ending("returned",
                        [sourceId |-> TheSource.id, success |-> FALSE,
                         monitorsUpdated |-> 0, heartbeatsFetched |-> 0,
                         error |-> msg],
                        NotThrown, hist2,
                        Append(met, MetricsRow(FALSE, 0, 0, msg)))

\* the rest of the try block once withRetry returned: a completed history
\* row, a success sample, then the result; an insert that throws is caught
TryTail(hist, met, mu, hb, h1, m1, h2, m2) ==
    IF ~h1 THEN CatchBlock(hist, met, HistoryMessage, h2, m2)
    ELSE LET hist1 == Append(hist, HistoryRow("completed", mu, hb,
                                              NoError))
         IN IF ~m1 THEN CatchBlock(hist1, met, MetricsMessage, h2, m2)
            ELSE Ending("returned",
                        [sourceId |-> TheSource.id, success |-> TRUE,
                         monitorsUpdated |-> mu, heartbeatsFetched |-> hb,
                         error |-> NoError],
                        NotThrown, hist1,
                        Append(met, MetricsRow(TRUE, mu, hb, NoError)))

SetEnding(e) ==
    /\ spc' = e.pc
    /\ syncResult' = e.result
    /\ thrown' = e.thrown
    /\ syncHistory' = e.history
    /\ syncMetrics' = e.metrics

\* performSourceSync() returned: withRetry returns, the try block ends
AttemptSucceeds(mu, hb) ==
    /\ \E h1 \in WriteOutcomes, m1 \in WriteOutcomes,
          h2 \in WriteOutcomes, m2 \in WriteOutcomes :
          SetEnding(TryTail(syncHistory, syncMetrics, mu, hb, h1, m1, h2, m2))
    /\ UNCHANGED <<attempt, lastError, failures, backoffs>>

\* performSourceSync() threw: withRetry sleeps and retries, or rethrows the
\* last error into the catch block
AttemptFails(msg) ==
    /\ lastError' = NextLastError(lastError, msg)
    /\ failures' = Append(failures, msg)
    /\ IF attempt < options.maxRetries
       THEN /\ spc' = "backoff"
            /\ backoffs' = Append(backoffs, BackoffDelay(attempt))
            /\ UNCHANGED <<syncResult, thrown, syncHistory, syncMetrics>>
       ELSE /\ \E h2 \in WriteOutcomes, m2 \in WriteOutcomes :
                  SetEnding(CatchBlock(syncHistory, syncMetrics,
                                       NextLastError(lastError, msg), h2, m2))
            /\ UNCHANGED backoffs
    /\ UNCHANGED attempt

\* syncSource(source, options) is called: withRetry starts the first attempt,
\* which issues the monitors fetch; with maxRetries < 1 the loop body never
\* runs, undefined is thrown and the catch block's error.message throws
SyncSource ==
    /\ spc = "idle"
    /\ IF 1 <= options.maxRetries
       THEN /\ spc' = "fetching-monitors"
            /\ attempt' = 1
            /\ progress' = progress \o <<"pending", "fetching-monitors">>
            /\ abortTimer' = TRUE
            /\ UNCHANGED <<syncResult, thrown>>
       ELSE /\ spc' = "rejected"
            /\ thrown' = TypeErrorMessage
            /\ progress' = Append(progress, "pending")
            /\ UNCHANGED <<attempt, syncResult, abortTimer>>
    /\ UNCHANGED <<remote, dbFaults, options, lastError, failures, backoffs,
                   attemptMonitors, hbOutcome, monitors, hbCache, syncHistory,
                   syncMetrics, schedVars, batchVars>>

\* response.json() resolved with the monitors payload: 'updating-db' is
\* published and the reconcile loop runs, one insert per entry, and may throw
\* at any insert; then the heartbeat fetch is issued or the attempt returns
MonitorsDelivered ==
    LET list == MonitorEntries(remote)
    IN \E bad \in 0..Len(list) :
          IF bad # 0
          THEN /\ monitors' = Reconciled(monitors, list, bad - 1, TheSource)
               /\ AttemptFails(ReconcileMessage)
               /\ progress' = Append(progress, "updating-db")
               /\ abortTimer' = FALSE
               /\ UNCHANGED attemptMonitors
          ELSE /\ monitors' = Reconciled(monitors, list, Len(list),
                                         TheSource)
               /\ attemptMonitors' = Len(list)
               /\ IF options.includeHeartbeats
                  THEN /\ spc' = "fetching-heartbeats"
                       /\ progress' = progress \o
                             <<"updating-db", "fetching-heartbeats">>
                       /\ abortTimer' = TRUE
                       /\ UNCHANGED <<attempt, lastError, failures,
                                      backoffs, syncResult, thrown,
                                      syncHistory, syncMetrics>>
                  ELSE /\ AttemptSucceeds(Len(list), 0)
                       /\ progress' = progress \o
                             <<"updating-db", "completed">>
                       /\ abortTimer' = FALSE

\* the monitors endpoint answers with its body at once, or the fetch fails
\* or is aborted before the status line
MonitorsResponse ==
    /\ spc = "fetching-monitors"
    /\ \E out \in MonitorsOutcomes :
          IF out # "ok"
          THEN /\ AttemptFails(IF out = "timeout" THEN AbortMessage
                               ELSE HttpMessage(TheSource.slug))
               /\ abortTimer' = FALSE
               /\ UNCHANGED <<attemptMonitors, monitors, progress>>
          ELSE MonitorsDelivered
    /\ UNCHANGED <<remote, dbFaults, options, hbOutcome, hbCache, schedVars,
                   batchVars>>

\* fetch() resolved with an ok status line: fetchWithTimeout clears the abort
\* timer and returns the response, whose body response.json() still awaits
MonitorsHeaders ==
    /\ spc = "fetching-monitors"
    /\ spc' = "reading-monitors"
    /\ abortTimer' = FALSE
    /\ UNCHANGED <<remote, dbFaults, options, attempt, lastError, failures,
                   backoffs, attemptMonitors, hbOutcome, monitors, hbCache,
                   syncHistory, syncMetrics, syncResult, thrown, progress,
                   schedVars, batchVars>>

\* the rest of the monitors body arrives: response.json() resolves, or
\* rejects on a body that is not JSON
MonitorsBody ==
    /\ spc = "reading-monitors"
    /\ \E read \in BOOLEAN :
          IF read
          THEN MonitorsDelivered
          ELSE /\ AttemptFails(JsonMessage)
               /\ UNCHANGED <<attemptMonitors, monitors, progress,
                              abortTimer>>
    /\ UNCHANGED <<remote, dbFaults, options, hbOutcome, hbCache, schedVars,
                   batchVars>>

\* a heartbeat fetch outside any try/catch: a throw or an abort ends the
\* attempt
HeartbeatStageUnguarded(out, cache, page, src) ==
    IF out = "ok"
    THEN [threw |-> FALSE, error |-> NoError,
          heartbeatsFetched |-> Cardinality(page.heartbeatIds),
          cache |-> [cache EXCEPT
                       ![src.id] = [heartbeatList |-> page.heartbeatIds]]]
    ELSE [threw |-> out \in {"throws", "timeout"}, error |-> AbortMessage,
          heartbeatsFetched |-> 0, cache |-> cache]

\* a heartbeat stage that replaces the cache entry of every source
HeartbeatStageEveryKey(out, cache, page, src) ==
    IF out = "ok"
    THEN [threw |-> FALSE, error |-> NoError,
          heartbeatsFetched |-> Cardinality(page.heartbeatIds),
          cache |-> [i \in DOMAIN cache |->
                       [heartbeatList |-> page.heartbeatIds]]]
    ELSE [threw |-> FALSE, error |-> NoError, heartbeatsFetched |-> 0,
          cache |-> cache]

\* the try/catch around the heartbeat-endpoint fetch: what the attempt
\* counts and caches for each way the fetch can end
HeartbeatStage(out, cache, page, src) ==
    IF out = "ok"
    THEN [threw |-> FALSE, error |-> NoError,
          heartbeatsFetched |-> Cardinality(page.heartbeatIds),
          cache |-> [cache EXCEPT
                       ![src.id] = [heartbeatList |-> page.heartbeatIds]]]
    ELSE [threw |-> FALSE, error |-> NoError, heartbeatsFetched |-> 0,
          cache |-> cache]

\* the heartbeat stage ends with outcome out: the cache entry is replaced on
\* an ok answer, 'completed' is published and the attempt returns
HeartbeatsSettled(out) ==
    LET st == HeartbeatStage(out, hbCache, remote, TheSource)
    IN /\ hbOutcome' = out
       /\ hbCache' = st.cache
       /\ abortTimer' = FALSE
       /\ IF st.threw
          THEN /\ AttemptFails(st.error)
               /\ UNCHANGED progress
          ELSE /\ AttemptSucceeds(attemptMonitors, st.heartbeatsFetched)
               /\ progress' = Append(progress, "completed")

\* the heartbeat endpoint answers with its body at once, or its fetch throws
\* or is aborted
HeartbeatsResponse ==
    /\ spc = "fetching-heartbeats"
    /\ \E out \in HeartbeatOutcomes : HeartbeatsSettled(out)
    /\ UNCHANGED <<remote, dbFaults, options, attemptMonitors, monitors,
                   schedVars, batchVars>>

\* fetch() resolved with an ok status line for the heartbeat endpoint: the
\* abort timer is cleared while response.json() still awaits the body
HeartbeatsHeaders ==
    /\ spc = "fetching-heartbeats"
    /\ spc' = "reading-heartbeats"
    /\ abortTimer' = FALSE
    /\ UNCHANGED <<remote, dbFaults, options, attempt, lastError, failures,
                   backoffs, attemptMonitors, hbOutcome, monitors, hbCache,
                   syncHistory, syncMetrics, syncResult, thrown, progress,
                   schedVars, batchVars>>

\* the rest of the heartbeat body arrives: response.json() resolves, or
\* rejects inside the try/catch
HeartbeatsBody ==
    /\ spc = "reading-heartbeats"
    /\ \E out \in {"ok", "throws"} : HeartbeatsSettled(out)
    /\ UNCHANGED <<remote, dbFaults, options, attemptMonitors, monitors,
                   schedVars, batchVars>>

\* the backoff delay ends: the next attempt issues the monitors fetch
BackoffEnds ==
    /\ spc = "backoff"
    /\ spc' = "fetching-monitors"
    /\ attempt' = attempt + 1
    /\ progress' = Append(progress, "fetching-monitors")
    /\ abortTimer' = TRUE
    /\ UNCHANGED <<remote, dbFaults, options, lastError, failures, backoffs,
                   attemptMonitors, hbOutcome, monitors, hbCache, syncHistory,
                   syncMetrics, syncResult, thrown, schedVars, batchVars>>

(* ---------------------------------------------------------------------- *)
(* syncSource() called again against an unchanged page, and the older     *)
(* syncSource(source) that stores the heartbeats the page carries inline  *)
(* ---------------------------------------------------------------------- *)
NoBaseline == [monitors |-> {}, heartbeatRows |-> <<"none">>]

\* the tables as the first call that reconciled the whole page left them
NextBaseline(base, reconciled, rows, beats) ==
    IF base = NoBaseline /\ reconciled
    THEN [monitors |-> rows, heartbeatRows |-> beats]
    ELSE base

\* syncSource(source, options) is called again once the last call returned
SyncAgain ==
    /\ path = "endpoint"
    /\ spc = "returned"
    /\ syncCount < MaxSyncs
    /\ syncCount' = syncCount + 1
    /\ baseline' = NextBaseline(baseline, syncResult.success, monitors,
                                heartbeatRows)
    /\ spc' = "fetching-monitors"
    /\ attempt' = 1
    /\ lastError' = NoError
    /\ failures' = <<>>
    /\ backoffs' = <<>>
    /\ attemptMonitors' = 0
    /\ hbOutcome' = "none"
    /\ progress' = <<"pending", "fetching-monitors">>
    /\ abortTimer' = TRUE
    /\ UNCHANGED <<remote, dbFaults, options, monitors, hbCache, syncHistory,
                   syncMetrics, syncResult, thrown, inlineData, heartbeatRows,
                   path, response, metricVars, cacheVars, progressVars, schedVars,
                   batchVars>>

\* the key of a monitor_heartbeats row: one row per monitor, source and
\* timestamp
HeartbeatKey(r) == <<r.monitor_id, r.source_id, r.timestamp>>

\* the row the heartbeat statement binds
HeartbeatRow(id, src, hb) ==
    [monitor_id |-> id, source_id |-> src.id, status |-> hb.status,
     ping |-> NumberOrNull(hb.ping), timestamp |-> hb.time]

\* a plain INSERT: the row is stored whatever the table holds
InsertAlways(rows, r) == Append(rows, r)

\* INSERT OR IGNORE INTO monitor_heartbeats
InsertOrIgnore(rows, r) ==
    IF \E i \in 1..Len(rows) : HeartbeatKey(rows[i]) = HeartbeatKey(r)
    THEN rows
    ELSE Append(rows, r)

\* data.heartbeatList?.[monitor.id] || []
InlineBeats(data, id) ==
    IF id \in DOMAIN data.heartbeatList THEN data.heartbeatList[id] ELSE <<>>

\* for (const hb of heartbeats): the table after the first n were bound
RECURSIVE BeatsInserted(_, _, _, _, _)
BeatsInserted(rows, id, src, beats, n) ==
    IF n = 0 THEN rows
    ELSE InsertOrIgnore(BeatsInserted(rows, id, src, beats, n - 1),
                        HeartbeatRow(id, src, beats[n]))

\* the entries the inline loop visits
InlineEntries(data) ==
    IF data.statusPagePublished THEN data.monitorList ELSE <<>>

\* monitor_heartbeats after the first n monitors of list were processed
RECURSIVE InlineHeartbeats(_, _, _, _, _)
InlineHeartbeats(rows, data, list, n, src) ==
    IF n = 0 THEN rows
    ELSE LET beats == InlineBeats(data, list[n].id)
         IN BeatsInserted(InlineHeartbeats(rows, data, list, n - 1, src),
                          list[n].id, src, beats, Len(beats))

\* the older syncSource(source): the page answers; an answer that is not ok
\* throws before any write, else every monitor is upserted and its inline
\* heartbeats are inserted
InlineSync ==
    /\ path = "inline"
    /\ syncCount < MaxSyncs
    /\ \E ok \in BOOLEAN :
          IF ok
          THEN LET list == InlineEntries(inlineData)
               IN /\ monitors' = Reconciled(monitors, list, Len(list),
                                            TheSource)
                  /\ heartbeatRows' = InlineHeartbeats(heartbeatRows,
                                          inlineData, list, Len(list),
                                          TheSource)
                  /\ baseline' = NextBaseline(baseline, TRUE, monitors',
                                              heartbeatRows')
                  /\ thrown' = NotThrown
          ELSE /\ thrown' = HttpMessage(TheSource.slug)
               /\ UNCHANGED <<baseline, monitors, heartbeatRows>>
    /\ syncCount' = syncCount + 1
    /\ UNCHANGED <<remote, dbFaults, options, spc, attempt, lastError,
                   failures, backoffs, attemptMonitors, hbOutcome, hbCache,
                   syncHistory, syncMetrics, syncResult, inlineData, path,
                   progress, abortTimer, response, metricVars, cacheVars, progressVars,
                   schedVars, batchVars>>

\* the k-th monitor a page lists: the first with every field, the others
\* with url and interval missing
PageMonitor(k) ==
    [id |-> k, name |-> "web",
     url |-> IF k = 1 THEN "https://ex.com/" ELSE "",
     type |-> "http",
     interval |-> IF k = 1 THEN 60 ELSE 0]

\* the monitors tables a sync can find: a row of another source with the
\* same monitor id, and possibly an older row of this source
StoredMonitors ==
    {{[id |-> 1, source_id |-> OtherSource.id, name |-> "other",
       url |-> Null, type |-> Null, interval |-> Null]},
     {[id |-> 1, source_id |-> OtherSource.id, name |-> "other",
       url |-> Null, type |-> Null, interval |-> Null],
      [id |-> 1, source_id |-> TheSource.id, name |-> "renamed",
       url |-> <<"https://old.ex.com/">>, type |-> <<"ping">>,
       interval |-> <<30>>]}}

(* ---------------------------------------------------------------------- *)
(* SyncMetricsCollector: the samples and the metrics read back from them   *)
(* ---------------------------------------------------------------------- *)
SourceIds == {TheSource.id, OtherSource.id}

\* the durations recorded with a sample, in milliseconds
Durations == {100, 301}

\* the row recordSyncMetrics() inserts; recent says that its timestamp is
\* later than the window of '24h', week that it is later than the window of
\* '7d', hour that it is less than one hour old
Sample(id, ok, d) ==
    [source_id |-> id, success |-> IF ok THEN 1 ELSE 0, duration_ms |-> d,
     recent |-> TRUE, week |-> TRUE, hour |-> TRUE]

\* the timeRange arguments the queries are called with
TimeRanges == {"24h", "7d"}

\* private cacheTTL
CacheTTL == 60000

\* the kinds of cache key: 0 for the overall metrics, the source id for the
\* metrics of a source
OverallKey == 0
SourceKey(id) == id

\* `overall_${timeRange}`, `source_${sourceId}_${timeRange}`,
\* `performance_${timeRange}`
CacheKey(kind, range) == <<kind, range>>

NoCached == [cached |-> FALSE]
NoMetrics == [none |-> TRUE]

\* the length of a day and of the window of a timeRange, in milliseconds
DayMs == 24 * 60 * 60 * 1000
WindowMs(range) ==
    CASE range = "24h" -> DayMs
      [] range = "7d" -> 7 * DayMs
      [] range = "30d" -> 30 * DayMs
      [] OTHER -> DayMs

\* a timestamp text is the sequence of its fields, every field of a fixed
\* width: the date, the character after the date, the second of the day
\* and, in the ISO format, the milliseconds
CharCode(c) == IF c = " " THEN 32 ELSE 84

\* CURRENT_TIMESTAMP at the time t: 'YYYY-MM-DD HH:MM:SS'
CurrentTimestamp(t) == <<t \div DayMs, CharCode(" "), (t % DayMs) \div 1000>>

\* new Date(t).toISOString(): 'YYYY-MM-DDTHH:MM:SS.sssZ'
ToISOString(t) ==
    <<t \div DayMs, CharCode("T"), (t % DayMs) \div 1000, t % 1000>>

\* getTimeWindow(timeRange) at the time t
GetTimeWindow(t, range) == ToISOString(t - WindowMs(range))

\* a > b between two texts: the first field that differs decides, and a
\* text is greater than each of its proper prefixes
TextGreater(a, b) ==
    \E i \in 1..Len(a) :
        /\ \A j \in 1..(i - 1) : j <= Len(b) /\ a[j] = b[j]
        /\ (i > Len(b) \/ a[i] > b[i])

\* timestamp > getTimeWindow(timeRange), for one row: a row the table is
\* given with says on which side of the windows it is, a row stamped at a
\* time is compared with the cutoff as the store compares two texts
InRange(r, range) ==
    IF "timestamp" \in DOMAIN r
    THEN TextGreater(r.timestamp, GetTimeWindow(now, range))
    ELSE IF range = "24h" THEN r.recent ELSE r.week

\* WHERE timestamp > ?
InWindow(rows, range) == SelectSeq(rows, LAMBDA r : InRange(r, range))

\* WHERE source_id = ? AND timestamp > ?
OfSource(rows, id, range) ==
    SelectSeq(rows, LAMBDA r : r.source_id = id /\ InRange(r, range))

\* a cache that keeps its entries
Kept(cache) == cache

\* this.metricsCache.clear()
Cleared(cache) == [k \in DOMAIN cache |-> NoCached]

\* cached && Date.now() - cached.timestamp < this.cacheTTL
IsFresh(entry, t) == entry # NoCached /\ t - entry.timestamp < CacheTTL

\* this.metricsCache.set(cacheKey, { data: metrics, timestamp: Date.now() })
WithEntry(cache, key, metrics, t) ==
    [cache EXCEPT ![key] = [data |-> metrics, timestamp |-> t]]

\* SUM(CASE WHEN success = v THEN 1 ELSE 0 END) over the rows
RECURSIVE SumCase(_, _)
SumCase(rows, v) ==
    IF rows = <<>>
    THEN 0
    ELSE (IF Head(rows).success = v THEN 1 ELSE 0) + SumCase(Tail(rows), v)

RECURSIVE SumDuration(_)
SumDuration(rows) ==
    IF rows = <<>>
    THEN 0
    ELSE Head(rows).duration_ms + SumDuration(Tail(rows))

\* MAX(timestamp): NULL over no row, else the timestamp of the latest row,
\* kept as whether it is less than one hour old
LastSync(rows) ==
    IF rows = <<>>
    THEN Null
    ELSE IF \E i \in DOMAIN rows : rows[i].hour
         THEN <<"hour">>
         ELSE <<"older">>

\* the row the statistics SELECT returns: COUNT(*) is a number, SUM and AVG
\* over no row are NULL; the average is kept as <<sum, count>>
SyncStats(rows) ==
    [total_syncs |-> Len(rows),
     successful_syncs |-> IF rows = <<>> THEN Null ELSE <<SumCase(rows, 1)>>,
     failed_syncs |-> IF rows = <<>> THEN Null ELSE <<SumCase(rows, 0)>>,
     avg_duration |-> IF rows = <<>>
                      THEN Null
                      ELSE <<SumDuration(rows), Len(rows)>>,
     last_sync |-> LastSync(rows)]

\* Math.round(syncStats.avg_duration || 0)
RoundedAverage(avg) ==
    IF avg = Null THEN 0 ELSE (2 * avg[1] + avg[2]) \div (2 * avg[2])

\* const metrics: the counts and the average, as the queries copy them
Metrics(stats) ==
    [totalSyncs |-> stats.total_syncs,
     successfulSyncs |-> stats.successful_syncs,
     failedSyncs |-> stats.failed_syncs,
     averageDuration |-> RoundedAverage(stats.avg_duration),
     lastSyncTime |-> stats.last_sync]

\* recordSyncMetrics(): one row inserted, the cache cleared
RecordSyncMetrics ==
    \E id \in SourceIds, ok \in BOOLEAN, d \in Durations :
        /\ Len(samples) < MaxSamples
        /\ samples' = Append(samples, Sample(id, ok, d))
        /\ metricsCache' = Cleared(metricsCache)
        /\ called' = Call("recordSyncMetrics", id)
        /\ UNCHANGED <<returned, timeoutId, intervalId, isRunning, lastRun,
                       config, settings, timers, nextTimer, runs, nextRun,
                       batchVars, syncVars, resyncVars, response,
                       cacheVars, progressVars>>

\* getOverallMetrics(timeRange): the cached metrics while they are fresh,
\* otherwise computed from the rows of the window and cached
GetOverallMetrics(range) ==
        LET key == CacheKey(OverallKey, range)
        IN /\ IF IsFresh(metricsCache[key], now)
              THEN /\ returned' = metricsCache[key].data
                   /\ UNCHANGED metricsCache
              ELSE LET metrics == Metrics(SyncStats(InWindow(samples, range)))
                   IN /\ metricsCache' =
                            WithEntry(metricsCache, key, metrics, now)
                      /\ returned' = metrics
           /\ called' = Call("getOverallMetrics", [timeRange |-> range])
        /\ UNCHANGED <<samples, timeoutId, intervalId, isRunning, lastRun,
                       config, settings, timers, nextTimer, runs, nextRun,
                       batchVars, syncVars, resyncVars, response,
                       cacheVars, progressVars>>

\* getSourceMetrics(sourceId, timeRange): the same over the rows of one
\* source
GetSourceMetrics(id, range) ==
        LET key == CacheKey(SourceKey(id), range)
        IN /\ IF IsFresh(metricsCache[key], now)
              THEN /\ returned' = metricsCache[key].data
                   /\ UNCHANGED metricsCache
              ELSE LET metrics ==
                          Metrics(SyncStats(OfSource(samples, id, range)))
                   IN /\ metricsCache' =
                            WithEntry(metricsCache, key, metrics, now)
                      /\ returned' = metrics
           /\ called' = Call("getSourceMetrics",
                             [id |-> id, timeRange |-> range])
        /\ UNCHANGED <<samples, timeoutId, intervalId, isRunning, lastRun,
                       config, settings, timers, nextTimer, runs, nextRun,
                       batchVars, syncVars, resyncVars, response,
                       cacheVars, progressVars>>

(* getPerformanceMetrics(): percentiles of the successful durations *)
PerformanceKey == -1

\* every row of the window, successful or not
WindowRows(rows, range) == InWindow(rows, range)

\* WHERE timestamp > ? AND success = 1
SuccessRows(rows, range) ==
    SelectSeq(rows, LAMBDA r : InRange(r, range) /\ r.success = 1)

\* ORDER BY duration_ms
OrderByDuration(rows) ==
    SortSeq(rows, LAMBDA a, b : a.duration_ms < b.duration_ms)

\* durations.map(d => d.duration_ms).sort((a, b) => a - b)
DurationValues(rows) ==
    SortSeq([i \in 1..Len(rows) |-> rows[i].duration_ms],
            LAMBDA a, b : a < b)

\* Math.ceil(arr.length * p), p given in hundredths
CeilOfHundredths(n, pct) == (n * pct + 99) \div 100

Max(a, b) == IF a >= b THEN a ELSE b

\* percentile(arr, p): arr is indexed from 0 in the code, from 1 here
Percentile(arr, pct) ==
    IF Len(arr) = 0
    THEN 0
    ELSE LET index == CeilOfHundredths(Len(arr), pct) - 1
         IN arr[Max(0, Min(index, Len(arr) - 1)) + 1]

RECURSIVE SumValues(_)
SumValues(arr) ==
    IF arr = <<>> THEN 0 ELSE Head(arr) + SumValues(Tail(arr))

\* Math.min(...durationValues), Math.max(...durationValues)
MinValue(arr) ==
    CHOOSE x \in {arr[i] : i \in DOMAIN arr} :
        \A i \in DOMAIN arr : x <= arr[i]
MaxValue(arr) ==
    CHOOSE x \in {arr[i] : i \in DOMAIN arr} :
        \A i \in DOMAIN arr : x >= arr[i]

\* emptyMetrics
EmptyMetrics ==
    [p50 |-> 0, p90 |-> 0, p95 |-> 0, p99 |-> 0, min |-> 0, max |-> 0,
     average |-> 0]

\* what getPerformanceMetrics() computes from the rows it selected
PerformanceMetrics(durations) ==
    IF Len(durations) = 0
    THEN EmptyMetrics
    ELSE LET durationValues == DurationValues(durations)
         IN [p50 |-> Percentile(durationValues, 50),
             p90 |-> Percentile(durationValues, 90),
             p95 |-> Percentile(durationValues, 95),
             p99 |-> Percentile(durationValues, 99),
             min |-> MinValue(durationValues),
             max |-> MaxValue(durationValues),
             average |-> RoundedAverage(<<SumValues(durationValues),
                                          Len(durationValues)>>)]

\* getPerformanceMetrics(timeRange): the cached metrics while they are
\* fresh, otherwise computed from the successful rows of the window and
\* cached
GetPerformanceMetrics(range) ==
        LET key == CacheKey(PerformanceKey, range)
        IN /\ IF IsFresh(metricsCache[key], now)
              THEN /\ returned' = metricsCache[key].data
                   /\ UNCHANGED metricsCache
              ELSE LET durations ==
                          OrderByDuration(SuccessRows(samples, range))
                       metrics == PerformanceMetrics(durations)
                   IN /\ metricsCache' =
                            WithEntry(metricsCache, key, metrics, now)
                      /\ returned' = metrics
           /\ called' = Call("getPerformanceMetrics", [timeRange |-> range])
        /\ UNCHANGED <<samples, timeoutId, intervalId, isRunning, lastRun,
                       config, settings, timers, nextTimer, runs, nextRun,
                       batchVars, syncVars, resyncVars, response,
                       cacheVars, progressVars>>

(* getHealthCheck(): the verdict over the overall metrics of 24 hours *)
\* const syncSuccessRate, kept as <<numerator, denominator>>
SuccessRate(metrics) ==
    IF metrics.totalSyncs > 0
    THEN <<metrics.successfulSyncs[1], metrics.totalSyncs>>
    ELSE <<1, 1>>

\* rate < 0.9 and rate < 0.5
BelowNineTenths(rate) == rate[1] * 10 < rate[2] * 9
BelowHalf(rate) == rate[1] * 2 < rate[2]

\* the issues, in the order the checks push them
LowRateIssue == "Low sync success rate"
NoRecentIssue == "No successful syncs in the last hour"
NoSyncsIssue == "No syncs recorded"
SlowIssue == "High average sync duration"

Issues(metrics) ==
    (IF BelowNineTenths(SuccessRate(metrics)) THEN <<LowRateIssue>> ELSE <<>>)
      \o (IF metrics.lastSyncTime # Null
          THEN IF metrics.lastSyncTime = <<"older">>
               THEN <<NoRecentIssue>>
               ELSE <<>>
          ELSE <<NoSyncsIssue>>)
      \o (IF metrics.averageDuration > MaxAverageDurationMs
          THEN <<SlowIssue>>
          ELSE <<>>)

\* a verdict that never escalates
NeverUnhealthy(issues, rate) ==
    IF Len(issues) > 0 THEN "degraded" ELSE "healthy"

\* let status
HealthStatus(issues, rate) ==
    IF Len(issues) > 0
    THEN IF BelowHalf(rate) THEN "unhealthy" ELSE "degraded"
    ELSE "healthy"

HealthCheck(metrics) ==
    [status |-> HealthStatus(Issues(metrics), SuccessRate(metrics)),
     issues |-> Issues(metrics),
     lastSuccessfulSync |-> metrics.lastSyncTime,
     syncSuccessRate |-> SuccessRate(metrics)]

\* getHealthCheck(): getOverallMetrics('24h'), cached or computed, then the
\* three checks and the verdict
GetHealthCheck ==
    LET key == CacheKey(OverallKey, "24h")
        hit == IsFresh(metricsCache[key], now)
        metrics == IF hit
                   THEN metricsCache[key].data
                   ELSE Metrics(SyncStats(InWindow(samples, "24h")))
    IN /\ metricsCache' =
             IF hit
             THEN metricsCache
             ELSE WithEntry(metricsCache, key, metrics, now)
       /\ returned' = HealthCheck(metrics)
       /\ called' = Call("getHealthCheck", Undefined)
       /\ UNCHANGED <<samples, timeoutId, intervalId, isRunning, lastRun,
                      config, settings, timers, nextTimer, runs, nextRun,
                      batchVars, syncVars, resyncVars, response,
                      cacheVars, progressVars>>

\* the clock passes: just short of the cache interval, or all of it
MetricsTick ==
    \E dt \in {CacheTTL - 1, CacheTTL} :
        /\ now + dt <= MaxAgeings * CacheTTL
        /\ now' = now + dt
        /\ called' = Call("tick", Undefined)
        /\ UNCHANGED <<memoryCache, cacheEntries, hitCount, missCount, got,
                       lastSet, metricVars, timeoutId, intervalId, isRunning,
                       lastRun, config, settings, timers, nextTimer, runs,
                       nextRun, batchVars, syncVars, resyncVars, response,
                       progressVars>>

CacheKeys ==
    {CacheKey(kind, range) :
        kind \in {OverallKey, PerformanceKey}
                    \cup {SourceKey(id) : id \in SourceIds},
        range \in TimeRanges}

MetricsIdle ==
    /\ samples = <<>>
    /\ metricsCache = [k \in CacheKeys |-> NoCached]
    /\ returned = NoMetrics

(* ---------------------------------------------------------------------- *)
(* PersistentCache: the in-process map over the cache_entries table        *)
(* ---------------------------------------------------------------------- *)
CacheKeyNames == {"source_1"}
CachePrefixes == {"", "heartbeat"}

\* the value callers cache: a Date, which JSON.stringify turns into a string
CacheValues == {"Date"}

\* the ttl options callers pass (milliseconds)
TtlValues == {0, 2}

\* CacheOptions: ttl and prefix are optional
CacheOptionSets ==
    {[prefix |-> p] : p \in CachePrefixes}
      \cup {[prefix |-> p, ttl |-> t] : p \in CachePrefixes, t \in TtlValues}

\* options.ttl || this.defaultTTL
TtlOf(opts) ==
    IF "ttl" \in DOMAIN opts /\ opts.ttl # 0 THEN opts.ttl ELSE DefaultTTL

\* prefixKey(key, prefix)
PrefixKey(key, prefix) ==
    IF prefix # "" THEN prefix \o ":" \o key ELSE key

PrefixedKeys ==
    {PrefixKey(k, p) : k \in CacheKeyNames, p \in CachePrefixes}

\* JSON.stringify(data) and JSON.parse(row.data)
Stringify(data) == <<"json", IF data = "Date" THEN "date string" ELSE data>>
Parse(text) == text[2]

NoCacheEntry == [absent |-> TRUE]
Empty == <<"null">>

\* an entry that never expires
NeverExpired(entry, t) == FALSE

\* isExpired(entry) at the time t
IsExpired(entry, t) == t - entry.timestamp > entry.ttl

\* delete(key, options): both layers drop the key
MemoryWithout(memory, k) == [memory EXCEPT ![k] = NoCacheEntry]
TableWithout(table, k) == [table EXCEPT ![k] = NoCacheEntry]

\* set(key, data, options): the entry goes to the map and, with
\* INSERT OR REPLACE, to the table
CacheSet ==
    \E key \in CacheKeyNames, data \in CacheValues, opts \in CacheOptionSets :
        LET prefixedKey == PrefixKey(key, opts.prefix)
            entry == [data |-> data, timestamp |-> now, ttl |-> TtlOf(opts),
                      key |-> prefixedKey]
        IN /\ memoryCache' = [memoryCache EXCEPT ![prefixedKey] = entry]
           /\ cacheEntries' =
                 [cacheEntries EXCEPT ![prefixedKey] =
                     [key |-> prefixedKey, data |-> Stringify(data),
                      timestamp |-> now, ttl |-> TtlOf(opts)]]
           /\ lastSet' = [lastSet EXCEPT ![prefixedKey] =
                             [time |-> now, options |-> opts]]
           /\ called' = Call("set", prefixedKey)
           /\ UNCHANGED <<now, hitCount, missCount, got>>

\* get(key, options): the map first, then the table; an expired row is
\* deleted from both layers
CacheGet ==
    \E key \in CacheKeyNames, p \in CachePrefixes :
        LET prefixedKey == PrefixKey(key, p)
            memoryEntry == memoryCache[prefixedKey]
            row == cacheEntries[prefixedKey]
            entry == [data |-> Parse(row.data), timestamp |-> row.timestamp,
                      ttl |-> row.ttl, key |-> prefixedKey]
        IN /\ hitCount + missCount < MaxGets
           /\ IF memoryEntry # NoCacheEntry /\ ~IsExpired(memoryEntry, now)
              THEN /\ hitCount' = hitCount + 1
                   /\ got' = <<memoryEntry.data>>
                   /\ UNCHANGED <<memoryCache, cacheEntries, missCount>>
              ELSE IF row # NoCacheEntry /\ ~IsExpired(entry, now)
                   THEN /\ memoryCache' =
                             [memoryCache EXCEPT ![prefixedKey] = entry]
                        /\ hitCount' = hitCount + 1
                        /\ got' = <<entry.data>>
                        /\ UNCHANGED <<cacheEntries, missCount>>
                   ELSE /\ IF row # NoCacheEntry
                           THEN /\ memoryCache' =
                                     MemoryWithout(memoryCache, prefixedKey)
                                /\ cacheEntries' =
                                     TableWithout(cacheEntries, prefixedKey)
                           ELSE UNCHANGED <<memoryCache, cacheEntries>>
                        /\ missCount' = missCount + 1
                        /\ got' = Empty
                        /\ UNCHANGED hitCount
           /\ called' = Call("get", prefixedKey)
           /\ UNCHANGED <<now, lastSet>>

\* delete(key, options)
CacheDelete ==
    \E key \in CacheKeyNames, p \in CachePrefixes :
        LET prefixedKey == PrefixKey(key, p)
        IN /\ memoryCache[prefixedKey] # NoCacheEntry
                \/ cacheEntries[prefixedKey] # NoCacheEntry
           /\ memoryCache' = MemoryWithout(memoryCache, prefixedKey)
           /\ cacheEntries' = TableWithout(cacheEntries, prefixedKey)
           /\ called' = Call("delete", prefixedKey)
           /\ UNCHANGED <<now, hitCount, missCount, got, lastSet>>

\* cleanupExpiredEntries(), run by the cleanup interval: expired entries
\* leave the map, rows with timestamp + ttl < now leave the table
CleanupExpiredEntries ==
    /\ memoryCache' =
          [k \in DOMAIN memoryCache |->
             IF memoryCache[k] # NoCacheEntry /\ IsExpired(memoryCache[k], now)
             THEN NoCacheEntry
             ELSE memoryCache[k]]
    /\ cacheEntries' =
          [k \in DOMAIN cacheEntries |->
             IF /\ cacheEntries[k] # NoCacheEntry
                /\ cacheEntries[k].timestamp + cacheEntries[k].ttl < now
             THEN NoCacheEntry
             ELSE cacheEntries[k]]
    /\ called' = Call("sweep", Undefined)
    /\ UNCHANGED <<now, hitCount, missCount, got, lastSet>>

\* a millisecond passes
CacheTick ==
    /\ now < MaxClock
    /\ now' = now + 1
    /\ called' = Call("tick", Undefined)
    /\ UNCHANGED <<memoryCache, cacheEntries, hitCount, missCount, got,
                   lastSet>>

(* ---------------------------------------------------------------------- *)
(* SyncEngine.onProgress() and updateProgress(): the subscriber list        *)
(* ---------------------------------------------------------------------- *)
Subscribers == 1..MaxSubscribers

\* what a callback does with an event: return, throw, or first call the
\* unregister function onProgress() returned for it and then return or throw
Handlers == {"returns", "throws", "unregisters", "unregisters-throws"}

Range(seq) == {seq[i] : i \in DOMAIN seq}

\* indexOf(callback), 1-based, 0 when absent
IndexOf(cbs, s) ==
    IF s \in Range(cbs) THEN CHOOSE i \in DOMAIN cbs :
                                /\ cbs[i] = s
                                /\ \A j \in 1..(i - 1) : cbs[j] # s
    ELSE 0

\* the unregister function: splice(index, 1) when index > -1
Spliced(cbs, s) ==
    LET i == IndexOf(cbs, s)
    IN IF i = 0 THEN cbs
       ELSE [k \in 1..(Len(cbs) - 1) |-> IF k < i THEN cbs[k] ELSE cbs[k + 1]]

\* one callback(progressUpdate) inside the try/catch of updateProgress
Called(st, s, event) ==
    LET unreg == handlers[s] \in {"unregisters", "unregisters-throws"}
        throws == handlers[s] \in {"throws", "unregisters-throws"}
    IN [callbacks |-> IF unreg THEN Spliced(st.callbacks, s)
                      ELSE st.callbacks,
        received |-> [st.received EXCEPT ![s] = @ \cup {event}],
        threw |-> IF throws THEN st.threw \cup {s} ELSE st.threw,
        unregistered |-> IF unreg THEN st.unregistered \cup {s}
                         ELSE st.unregistered,
        late |-> IF s \in st.unregistered THEN st.late \cup {s} ELSE st.late,
        escaped |-> st.escaped]

\* this.progressCallbacks.forEach(...): the indexes below the length the list
\* had at the start are visited in order, and an index the list no longer has
\* is skipped
RECURSIVE ForEach(_, _, _, _)
ForEach(st, i, len, event) ==
    IF i > len THEN st
    ELSE IF i > Len(st.callbacks) THEN ForEach(st, i + 1, len, event)
    ELSE ForEach(Called(st, st.callbacks[i], event), i + 1, len, event)

\* onProgress(callback): push, for a callback not handed over before
OnProgress ==
    \E s \in Subscribers :
        /\ s \notin Range(progressCallbacks)
        /\ s \notin unregistered
        /\ progressCallbacks' = Append(progressCallbacks, s)
        /\ UNCHANGED <<handlers, received, published, audience, threw,
                       unregistered, late, escaped>>

\* the function onProgress() returned for a callback is called by its owner
Unregister ==
    \E s \in Subscribers :
        /\ s \in Range(progressCallbacks) \/ s \in unregistered
        /\ progressCallbacks' = Spliced(progressCallbacks, s)
        /\ unregistered' = unregistered \cup {s}
        /\ UNCHANGED <<handlers, received, published, audience, threw, late,
                       escaped>>

\* updateProgress(sourceId, status, progress, currentStep) during a sync
UpdateProgress ==
    /\ published < MaxEvents
    /\ published' = published + 1
    /\ audience' = Range(progressCallbacks)
    /\ LET st == ForEach([callbacks |-> progressCallbacks,
                          received |-> received, threw |-> {},
                          unregistered |-> unregistered, late |-> late,
                          escaped |-> escaped],
                         1, Len(progressCallbacks), published + 1)
       IN /\ progressCallbacks' = st.callbacks
          /\ received' = st.received
          /\ threw' = st.threw
          /\ unregistered' = st.unregistered
          /\ late' = st.late
          /\ escaped' = st.escaped
    /\ UNCHANGED handlers

ProgressIdle ==
    /\ handlers = [s \in Subscribers |-> "returns"]
    /\ progressCallbacks = <<>>
    /\ received = [s \in Subscribers |-> {}]
    /\ published = 0
    /\ audience = {}
    /\ threw = {}
    /\ unregistered = {}
    /\ late = {}
    /\ escaped = FALSE

CacheIdle ==
    /\ now = 0
    /\ memoryCache = [k \in PrefixedKeys |-> NoCacheEntry]
    /\ cacheEntries = [k \in PrefixedKeys |-> NoCacheEntry]
    /\ hitCount = 0
    /\ missCount = 0
    /\ got = Empty
    /\ lastSet = [k \in PrefixedKeys |-> NoCacheEntry]

ResyncIdle ==
    /\ inlineData = [statusPagePublished |-> FALSE, monitorList |-> <<>>,
                     heartbeatList |-> <<>>]
    /\ heartbeatRows = <<>>
    /\ syncCount = 0
    /\ path = "none"
    /\ baseline = NoBaseline

OtherIdle ==
    /\ ResyncIdle
    /\ response = 0
    /\ MetricsIdle
    /\ CacheIdle
    /\ ProgressIdle

SyncIdle ==
    /\ remote = [published |-> FALSE, monitorList |-> <<>>,
                 heartbeatIds |-> {}]
    /\ dbFaults = FALSE
    /\ options = [includeHeartbeats |-> TRUE, maxRetries |-> 3]
    /\ spc = "idle"
    /\ attempt = 0
    /\ lastError = NoError
    /\ failures = <<>>
    /\ backoffs = <<>>
    /\ attemptMonitors = 0
    /\ hbOutcome = "none"
    /\ monitors = {}
    /\ hbCache = [i \in {TheSource.id, OtherSource.id} |-> NoEntry]
    /\ syncHistory = <<>>
    /\ syncMetrics = <<>>
    /\ syncResult = NoResult
    /\ thrown = NotThrown
    /\ progress = <<>>
    /\ abortTimer = FALSE

SchedInit ==
    /\ timeoutId = 0
    /\ intervalId = 0
    /\ isRunning = FALSE
    /\ lastRun = 0
    /\ settings = NoRow
    /\ timers = {}
    /\ nextTimer = 1
    /\ runs = {}
    /\ nextRun = 1
    /\ called = NoCall

Init ==
    /\ SchedInit
    /\ config = DefaultConfig
    /\ sourceRows = <<>>
    /\ behaviour = <<>>
    /\ BatchIdle
    /\ SyncIdle
    /\ OtherIdle

Next ==
    \/ Start /\ UNCHANGED <<batchVars, syncVars, otherVars>>
    \/ Stop /\ UNCHANGED <<batchVars, syncVars, otherVars>>
    \/ UpdateConfig /\ UNCHANGED <<batchVars, syncVars, otherVars>>
    \/ WarmupFire /\ UNCHANGED <<batchVars, syncVars, otherVars>>
    \/ IntervalFire /\ UNCHANGED <<batchVars, syncVars, otherVars>>
    \/ RunReturns /\ UNCHANGED <<batchVars, syncVars, otherVars>>

Spec == Init /\ [][Next]_vars

\* the scheduler driven through its route
NextRoute ==
    \/ SchedulerPost
    \/ WarmupFire /\ UNCHANGED <<batchVars, syncVars, otherVars>>
    \/ IntervalFire /\ UNCHANGED <<batchVars, syncVars, otherVars>>
    \/ RunReturns /\ UNCHANGED <<batchVars, syncVars, otherVars>>

SpecRoute == Init /\ [][NextRoute]_vars

\* syncs requested through the sync route on a started scheduler whose
\* recurring timer is armed, over up to MaxManualSources sources
InitManual ==
    /\ timeoutId = 0
    /\ intervalId = 1
    /\ isRunning = TRUE
    /\ lastRun = 0
    /\ \E c \in 1..MaxConcurrent :
          config = [DefaultConfig EXCEPT !.concurrentSyncs = c]
    /\ settings = config
    /\ timers = {IntervalTimer(1, config)}
    /\ nextTimer = 2
    /\ runs = {}
    /\ nextRun = 1
    /\ called = NoCall
    /\ \E n \in 0..MaxManualSources :
          /\ sourceRows = [k \in 1..n |-> k]
          /\ behaviour = [k \in 1..n |-> "pending"]
    /\ BatchIdle
    /\ SyncIdle
    /\ OtherIdle

NextManual ==
    \/ SyncPost
    \/ ManualSettles
    \/ /\ SettleSync
       /\ response' = IF bpc' = "returned" THEN 200 ELSE response
       /\ UNCHANGED <<resyncVars, metricVars, cacheVars, progressVars>>
    \/ PauseEnds /\ UNCHANGED otherVars
    \/ Stop /\ UNCHANGED <<batchVars, syncVars, otherVars>>

SpecManual == InitManual /\ [][NextManual]_vars

\* one syncAllSources() call over every source table of up to MaxSources
\* rows and every concurrentSyncs of 1..MaxConcurrent; how each per-source
\* sync ends is chosen when it settles
InitBatch ==
    /\ SchedInit
    /\ \E c \in 1..MaxConcurrent :
          config = [DefaultConfig EXCEPT !.concurrentSyncs = c]
    /\ \E n \in 0..MaxSources :
          /\ sourceRows = [k \in 1..n |-> k]
          /\ behaviour = [k \in 1..n |-> "pending"]
    /\ BatchIdle
    /\ SyncIdle
    /\ OtherIdle

NextBatch ==
    \/ SyncAllSources /\ UNCHANGED otherVars
    \/ SettleSync /\ UNCHANGED otherVars
    \/ PauseEnds /\ UNCHANGED otherVars

SpecBatch == InitBatch /\ [][NextBatch]_vars

\* one syncAllSources() call over a source table of 1..MaxLoopSources rows,
\* after updateConfig() stored a concurrentSyncs the route hands through
ConcurrentValues == {-2, -1, 0, 1, 2}

InitLoop ==
    /\ SchedInit
    /\ config = DefaultConfig
    /\ \E n \in 1..MaxLoopSources :
          /\ sourceRows = [k \in 1..n |-> k]
          /\ behaviour = [k \in 1..n |-> "pending"]
    /\ BatchIdle
    /\ SyncIdle
    /\ OtherIdle

UpdateConcurrentSyncs ==
    \E c \in ConcurrentValues :
        /\ bpc = "idle"
        /\ DoUpdateConfig([concurrentSyncs |-> c])
        /\ called' = Call("updateConfig", [concurrentSyncs |-> c])
        /\ UNCHANGED <<batchVars, syncVars, otherVars>>

NextLoop ==
    \/ UpdateConcurrentSyncs
    \/ SyncAllSources /\ UNCHANGED otherVars
    \/ SettleSync /\ UNCHANGED otherVars
    \/ EmptyBatchSettles /\ UNCHANGED otherVars
    \/ batchNo < MaxBatches /\ PauseEnds /\ UNCHANGED otherVars

SpecLoop == InitLoop /\ [][NextLoop]_vars

\* one syncSource() call against every remote page of up to MaxMonitors
\* monitors, for every includeHeartbeats and every maxRetries of
\* 0..MaxRetries; faulty says whether the bookkeeping inserts may throw
InitSyncWith(faulty) ==
    /\ SchedInit
    /\ config = DefaultConfig
    /\ sourceRows = <<>>
    /\ behaviour = <<>>
    /\ BatchIdle
    /\ \E pub \in BOOLEAN, n \in 0..MaxMonitors :
          remote = [published |-> pub,
                    monitorList |-> [k \in 1..n |-> PageMonitor(k)],
                    heartbeatIds |-> 1..n]
    /\ dbFaults = faulty
    /\ \E hb \in BOOLEAN, r \in 0..MaxRetries :
          options = [includeHeartbeats |-> hb, maxRetries |-> r]
    /\ spc = "idle"
    /\ attempt = 0
    /\ lastError = NoError
    /\ failures = <<>>
    /\ backoffs = <<>>
    /\ attemptMonitors = 0
    /\ hbOutcome = "none"
    /\ monitors \in StoredMonitors
    /\ hbCache = [i \in {TheSource.id, OtherSource.id} |->
                    StaleEntry(i)]
    /\ syncHistory = <<>>
    /\ syncMetrics = <<>>
    /\ syncResult = NoResult
    /\ thrown = NotThrown
    /\ progress = <<>>
    /\ abortTimer = FALSE
    /\ OtherIdle

NextSync ==
    \/ SyncSource /\ UNCHANGED otherVars
    \/ MonitorsResponse /\ UNCHANGED otherVars
    \/ MonitorsHeaders /\ UNCHANGED otherVars
    \/ MonitorsBody /\ UNCHANGED otherVars
    \/ HeartbeatsResponse /\ UNCHANGED otherVars
    \/ HeartbeatsHeaders /\ UNCHANGED otherVars
    \/ HeartbeatsBody /\ UNCHANGED otherVars
    \/ BackoffEnds /\ UNCHANGED otherVars

\* the bookkeeping inserts succeed
InitSync == InitSyncWith(FALSE)
SpecSync == InitSync /\ [][NextSync]_vars

\* the bookkeeping inserts may throw
InitSyncFaulty == InitSyncWith(TRUE)
SpecSyncFaulty == InitSyncFaulty /\ [][NextSync]_vars

\* the heartbeats a page carries inline for one monitor: up to MaxBeats,
\* the last possibly listed twice
InlineLists ==
    {[k \in 1..n |-> [time |-> k, status |-> 1, ping |-> 0]] :
        n \in 0..MaxBeats}
      \cup {<<[time |-> 1, status |-> 1, ping |-> 20],
              [time |-> 1, status |-> 1, ping |-> 20]>>}

\* the heartbeat rows a sync can find: none, one it is about to be handed
\* again, or one of the same monitor id under another source
StoredBeats ==
    {<<>>,
     <<[monitor_id |-> 1, source_id |-> TheSource.id, status |-> 0,
        ping |-> Null, timestamp |-> 1]>>,
     <<[monitor_id |-> 1, source_id |-> OtherSource.id, status |-> 1,
        ping |-> Null, timestamp |-> 1]>>}

\* the options of the engine's calls: two attempts each
ResyncOptions == {[includeHeartbeats |-> hb, maxRetries |-> 2] : hb \in BOOLEAN}

\* syncSource() called up to MaxSyncs times against one unchanged page: the
\* engine's call, or the older call with inline heartbeats
InitResync ==
    /\ SchedInit
    /\ config = DefaultConfig
    /\ sourceRows = <<>>
    /\ behaviour = <<>>
    /\ BatchIdle
    /\ \E pub \in BOOLEAN, n \in 0..MaxMonitors :
          /\ remote = [published |-> pub,
                       monitorList |-> [k \in 1..n |-> PageMonitor(k)],
                       heartbeatIds |-> 1..n]
          /\ \E hl \in [1..n -> InlineLists] :
                inlineData = [statusPagePublished |-> pub,
                              monitorList |-> [k \in 1..n |-> PageMonitor(k)],
                              heartbeatList |-> hl]
    /\ dbFaults = FALSE
    /\ options \in ResyncOptions
    /\ spc = "idle"
    /\ attempt = 0
    /\ lastError = NoError
    /\ failures = <<>>
    /\ backoffs = <<>>
    /\ attemptMonitors = 0
    /\ hbOutcome = "none"
    /\ monitors \in StoredMonitors
    /\ hbCache = [i \in {TheSource.id, OtherSource.id} |-> StaleEntry(i)]
    /\ syncHistory = <<>>
    /\ syncMetrics = <<>>
    /\ syncResult = NoResult
    /\ thrown = NotThrown
    /\ progress = <<>>
    /\ abortTimer = FALSE
    /\ heartbeatRows \in StoredBeats
    /\ syncCount = 0
    /\ path \in {"endpoint", "inline"}
    \* the engine's call reads no inline heartbeat, the older call no option
    /\ path = "endpoint" =>
          /\ heartbeatRows = <<>>
          /\ \A k \in DOMAIN inlineData.heartbeatList :
                inlineData.heartbeatList[k] = <<>>
    /\ path = "inline" => options.includeHeartbeats
    /\ baseline = NoBaseline
    /\ response = 0
    /\ MetricsIdle
    /\ CacheIdle
    /\ ProgressIdle

NextResync ==
    \/ /\ path = "endpoint"
       /\ SyncSource
       /\ syncCount' = syncCount + 1
       /\ UNCHANGED <<inlineData, heartbeatRows, path, baseline, response,
                      metricVars, cacheVars, progressVars>>
    \/ MonitorsResponse /\ UNCHANGED otherVars
    \/ MonitorsHeaders /\ UNCHANGED otherVars
    \/ MonitorsBody /\ UNCHANGED otherVars
    \/ HeartbeatsResponse /\ UNCHANGED otherVars
    \/ HeartbeatsHeaders /\ UNCHANGED otherVars
    \/ HeartbeatsBody /\ UNCHANGED otherVars
    \/ BackoffEnds /\ UNCHANGED otherVars
    \/ SyncAgain
    \/ InlineSync

SpecResync == InitResync /\ [][NextResync]_vars

(* ---------------------------------------------------------------------- *)
(* The metrics collector: samples recorded and metrics queried             *)
(* ---------------------------------------------------------------------- *)
\* the sync_metrics tables a process can start with: empty, or one sample
\* older than the window of '24h'
StoredSamples ==
    {<<>>, <<[Sample(TheSource.id, TRUE, 100) EXCEPT !.recent = FALSE,
                                                      !.hour = FALSE]>>}

InitMetrics ==
    /\ SchedInit
    /\ config = DefaultConfig
    /\ sourceRows = <<>>
    /\ behaviour = <<>>
    /\ BatchIdle
    /\ SyncIdle
    /\ ResyncIdle
    /\ response = 0
    /\ samples \in StoredSamples
    /\ metricsCache = [k \in CacheKeys |-> NoCached]
    /\ returned = NoMetrics
    /\ CacheIdle
    /\ ProgressIdle

NextMetrics ==
    \/ RecordSyncMetrics
    \/ GetOverallMetrics("24h")
    \/ \E id \in SourceIds : GetSourceMetrics(id, "24h")

SpecMetrics == InitMetrics /\ [][NextMetrics]_vars

(* ---------------------------------------------------------------------- *)
(* the queries of both windows, a sample recorded between them, the clock  *)
(* ---------------------------------------------------------------------- *)
\* the table the sample is recorded into: its rows are older than the
\* window of '24h', the first one older than the window of '7d' too
AgedTable ==
    [i \in 1..(MaxSamples - 1) |->
        [Sample(TheSource.id, TRUE, 100) EXCEPT !.recent = FALSE,
                                                !.week = (i > 1),
                                                !.hour = FALSE]]

\* the client queries a key the cache holds, or one more key while the cache
\* holds fewer than MaxCached
Queried(key) ==
    \/ metricsCache[key] # NoCached
    \/ Cardinality({k \in CacheKeys : metricsCache[k] # NoCached}) < MaxCached

InitAggregation ==
    /\ SchedInit
    /\ config = DefaultConfig
    /\ sourceRows = <<>>
    /\ behaviour = <<>>
    /\ BatchIdle
    /\ SyncIdle
    /\ ResyncIdle
    /\ response = 0
    /\ samples = AgedTable
    /\ metricsCache = [k \in CacheKeys |-> NoCached]
    /\ returned = NoMetrics
    /\ CacheIdle
    /\ ProgressIdle

NextAggregation ==
    \/ RecordSyncMetrics
    \/ \E range \in TimeRanges :
          /\ Queried(CacheKey(OverallKey, range))
          /\ GetOverallMetrics(range)
    \/ \E id \in SourceIds, range \in TimeRanges :
          /\ Queried(CacheKey(SourceKey(id), range))
          /\ GetSourceMetrics(id, range)
    \/ \E range \in TimeRanges :
          /\ Queried(CacheKey(PerformanceKey, range))
          /\ GetPerformanceMetrics(range)
    \/ MetricsTick

SpecAggregation == InitAggregation /\ [][NextAggregation]_vars

(* ---------------------------------------------------------------------- *)
(* the queries over rows stamped by the store                              *)
(* ---------------------------------------------------------------------- *)
\* the time of a query: noon, and half a second before midnight, of the
\* tenth day after the first one a row can be stamped on
QueryTimes == {10 * DayMs + 12 * 60 * 60 * 1000, 11 * DayMs - 500}

\* how long before a query a row was recorded: half a second, an hour or
\* thirteen hours less than one of the windows, exactly a window, and an
\* hour more
Ages ==
    UNION {{WindowMs(range) - 500, WindowMs(range) - 60 * 60 * 1000,
            WindowMs(range) - 13 * 60 * 60 * 1000, WindowMs(range),
            WindowMs(range) + 60 * 60 * 1000} : range \in TimeRanges}

\* the row recordSyncMetrics() inserted at the time t
StampedSample(id, ok, d, t) ==
    [source_id |-> id, success |-> IF ok THEN 1 ELSE 0, duration_ms |-> d,
     hour |-> FALSE, timestamp |-> CurrentTimestamp(t), recordedAt |-> t]

\* the tables of up to MaxStamped rows recorded before the query at t
StampedTables(t) ==
    UNION {[1..n -> {StampedSample(TheSource.id, ok, 100, t - age) :
                        ok \in BOOLEAN, age \in Ages}] :
             n \in 0..MaxStamped}

InitWindow ==
    /\ SchedInit
    /\ config = DefaultConfig
    /\ sourceRows = <<>>
    /\ behaviour = <<>>
    /\ BatchIdle
    /\ SyncIdle
    /\ ResyncIdle
    /\ response = 0
    /\ metricsCache = [k \in CacheKeys |-> NoCached]
    /\ returned = NoMetrics
    /\ memoryCache = [k \in PrefixedKeys |-> NoCacheEntry]
    /\ cacheEntries = [k \in PrefixedKeys |-> NoCacheEntry]
    /\ hitCount = 0
    /\ missCount = 0
    /\ got = Empty
    /\ lastSet = [k \in PrefixedKeys |-> NoCacheEntry]
    /\ now \in QueryTimes
    /\ samples \in StampedTables(now)
    /\ ProgressIdle

NextWindow ==
    \/ \E range \in TimeRanges : GetOverallMetrics(range)
    \/ \E range \in TimeRanges : GetSourceMetrics(TheSource.id, range)
    \/ \E range \in TimeRanges : GetPerformanceMetrics(range)

SpecWindow == InitWindow /\ [][NextWindow]_vars

(* ---------------------------------------------------------------------- *)
(* getPerformanceMetrics() over tables of up to MaxDurations successes     *)
(* ---------------------------------------------------------------------- *)
\* how the durations of the successful rows run through the table
Shapes == {"rising", "falling", "mixed", "equal"}

ShapeDuration(shape, i, n) ==
    CASE shape = "rising" -> i * 10
      [] shape = "falling" -> (n - i) * 10
      [] shape = "mixed" -> ((i * 7) % 10) * 100 + (i % 3)
      [] OTHER -> 500

\* failed rows of the window, faster and slower than every successful row,
\* and a successful row older than the window
FailedRows(nf) ==
    [j \in 1..nf |-> Sample(OtherSource.id, FALSE,
                            IF j % 2 = 1 THEN 0 ELSE 99999)]
OldRow == [Sample(TheSource.id, TRUE, 88888) EXCEPT !.recent = FALSE,
                                                    !.hour = FALSE]

PerformanceTables ==
    {FailedRows(nf) \o (IF old THEN <<OldRow>> ELSE <<>>)
        \o [i \in 1..ns |-> Sample(TheSource.id, TRUE,
                                   ShapeDuration(shape, i, ns))] :
       ns \in 0..MaxDurations, nf \in 0..2, old \in BOOLEAN,
       shape \in Shapes}

InitPerformance ==
    /\ SchedInit
    /\ config = DefaultConfig
    /\ sourceRows = <<>>
    /\ behaviour = <<>>
    /\ BatchIdle
    /\ SyncIdle
    /\ ResyncIdle
    /\ response = 0
    /\ samples \in PerformanceTables
    /\ metricsCache = [k \in CacheKeys |-> NoCached]
    /\ returned = NoMetrics
    /\ CacheIdle
    /\ ProgressIdle

NextPerformance == GetPerformanceMetrics("24h")

SpecPerformance == InitPerformance /\ [][NextPerformance]_vars

(* ---------------------------------------------------------------------- *)
(* getHealthCheck() over the samples of the last 24 hours                  *)
(* ---------------------------------------------------------------------- *)
\* the duration every row of a table carries: fast, at the limit, above it
HealthDurations == {100, MaxAverageDurationMs, MaxAverageDurationMs + 1}

\* tables of ns successful and nf failed rows of the window; hs and hf say
\* whether the successful and the failed rows are less than one hour old
HealthTables ==
    {[i \in 1..ns |-> [Sample(TheSource.id, TRUE, d) EXCEPT !.hour = hs]]
        \o [j \in 1..nf |-> [Sample(TheSource.id, FALSE, d)
                               EXCEPT !.hour = hf]] :
       ns \in 0..MaxSuccesses, nf \in 0..MaxFailures, hs \in BOOLEAN,
       hf \in BOOLEAN, d \in HealthDurations}

InitHealth ==
    /\ SchedInit
    /\ config = DefaultConfig
    /\ sourceRows = <<>>
    /\ behaviour = <<>>
    /\ BatchIdle
    /\ SyncIdle
    /\ ResyncIdle
    /\ response = 0
    /\ samples \in HealthTables
    /\ metricsCache = [k \in CacheKeys |-> NoCached]
    /\ returned = NoMetrics
    /\ CacheIdle
    /\ ProgressIdle

NextHealth ==
    \/ GetOverallMetrics("24h")
    \/ GetHealthCheck

SpecHealth == InitHealth /\ [][NextHealth]_vars

(* ---------------------------------------------------------------------- *)
(* The cache: entries set, read, deleted and swept while time passes       *)
(* ---------------------------------------------------------------------- *)
\* the cache_entries tables a process can start with: empty, or a row that
\* another process wrote one millisecond earlier
StoredEntries ==
    {[k \in PrefixedKeys |-> NoCacheEntry]}
      \cup {[k \in PrefixedKeys |->
               IF k = PrefixKey("source_1", "heartbeat")
               THEN [key |-> k, data |-> Stringify(v), timestamp |-> -1,
                     ttl |-> t]
               ELSE NoCacheEntry] : v \in CacheValues, t \in {2, DefaultTTL}}

InitCache ==
    /\ SchedInit
    /\ config = DefaultConfig
    /\ sourceRows = <<>>
    /\ behaviour = <<>>
    /\ BatchIdle
    /\ SyncIdle
    /\ ResyncIdle
    /\ response = 0
    /\ MetricsIdle
    /\ now = 0
    /\ memoryCache = [k \in PrefixedKeys |-> NoCacheEntry]
    /\ cacheEntries \in StoredEntries
    /\ hitCount = 0
    /\ missCount = 0
    /\ got = Empty
    /\ lastSet = [k \in PrefixedKeys |-> NoCacheEntry]
    /\ ProgressIdle

NextCache ==
    \/ CacheSet /\ UNCHANGED outsideCache
    \/ CacheGet /\ UNCHANGED outsideCache
    \/ CacheDelete /\ UNCHANGED outsideCache
    \/ CleanupExpiredEntries /\ UNCHANGED outsideCache
    \/ CacheTick /\ UNCHANGED outsideCache

SpecCache == InitCache /\ [][NextCache]_vars

\* callbacks of every kind subscribe to and unsubscribe from a sync engine
\* that publishes up to MaxEvents progress events
InitProgress ==
    /\ SchedInit
    /\ config = DefaultConfig
    /\ sourceRows = <<>>
    /\ behaviour = <<>>
    /\ BatchIdle
    /\ SyncIdle
    /\ ResyncIdle
    /\ response = 0
    /\ MetricsIdle
    /\ CacheIdle
    /\ handlers \in [Subscribers -> Handlers]
    /\ progressCallbacks = <<>>
    /\ received = [s \in Subscribers |-> {}]
    /\ published = 0
    /\ audience = {}
    /\ threw = {}
    /\ unregistered = {}
    /\ late = {}
    /\ escaped = FALSE

NextProgress ==
    \/ OnProgress /\ UNCHANGED outsideProgress
    \/ Unregister /\ UNCHANGED outsideProgress
    \/ UpdateProgress /\ UNCHANGED outsideProgress

SpecProgress == InitProgress /\ [][NextProgress]_vars

(* ---------------------------------------------------------------------- *)
(* Claims                                                                  *)
(* ---------------------------------------------------------------------- *)

\* C1: at most one scheduled (timer-triggered) run of syncAllSources is in
\* flight at any instant: a recurring fire never starts a scheduled run
\* while an earlier scheduled run has not yet returned.
C1_AtMostOneScheduledRun ==
    [][\A r \in runs' \ runs : r.from = "interval" => runs = {}]_vars

\* C2: after stop() returns, no timer-triggered run starts until start() is
\* called again: a step that begins and ends with isRunning false (so it is
\* not start()) starts no scheduled run.
C2_NoRunAfterStop ==
    [][(~isRunning /\ ~isRunning') => nextRun' = nextRun]_vars

\* C3: at most one timer is armed for the scheduler, and every armed timer
\* is the one held in timeoutId or intervalId.
C3_OneHeldTimer ==
    /\ Cardinality(timers) <= 1
    /\ \A t \in timers : t.id \in {timeoutId, intervalId}

CeilDiv(n, d) == (n + d - 1) \div d

\* C4: within one syncAllSources() call the syncs dispatched and not yet
\* settled never exceed concurrentSyncs, every batch but the last has
\* exactly concurrentSyncs sources, and a call over n sources returns after
\* ceil(n / concurrentSyncs) batches.
C4_BatchBound ==
    /\ Cardinality(inflight) <= batchSize
    /\ \A k \in 1..Len(dispatched) :
          /\ 1 <= Len(dispatched[k])
          /\ Len(dispatched[k]) <= batchSize
          /\ k < Len(dispatched) => Len(dispatched[k]) = batchSize
    /\ bpc = "returned" =>
          Len(dispatched) = CeilDiv(Len(loaded), batchSize)

\* 7 sources with concurrentSyncs = 3 returned after batches of 3, 3 and 1
C4_Witness ==
    /\ bpc = "returned"
    /\ Len(loaded) = 7
    /\ batchSize = 3
    /\ Len(dispatched) = 3
    /\ Len(dispatched[1]) = 3
    /\ Len(dispatched[2]) = 3
    /\ Len(dispatched[3]) = 1

\* C5: no source of batch N+1 is dispatched before every sync of batch N
\* has settled: every sync in flight belongs to the batch dispatched last.
C5_BatchesDoNotOverlap == \A x \in inflight : x.batch = batchNo

\* a second batch in flight after a first batch in which one sync
\* fulfilled and one rejected
C5_Witness ==
    /\ batchNo = 2
    /\ inflight # {}
    /\ Len(results) >= 2
    /\ results[1].success
    /\ behaviour[results[2].sourceId] = "throws"

\* C6: a source whose sync rejects or returns success:false prevents no
\* other source from being dispatched and from contributing its result; a
\* rejection becomes a success:false result carrying the error message.
C6_FailuresContained ==
    /\ bpc = "batch" => \E x \in inflight : x.batch = batchNo
    /\ bpc = "returned" =>
          \A i \in 1..Len(loaded) :
             /\ \E k \in 1..Len(dispatched) :
                   \E j \in 1..Len(dispatched[k]) :
                      dispatched[k][j] = loaded[i]
             /\ \E j \in 1..Len(results) :
                   /\ results[j].sourceId = loaded[i]
                   /\ results[j].success = (behaviour[loaded[i]] = "ok")
                   /\ behaviour[loaded[i]] = "throws" =>
                         results[j].error = "insert failed"
                   /\ behaviour[loaded[i]] = "failed" =>
                         results[j].error = "Failed to fetch monitors"

\* a returned call whose first batch held a rejecting, a failing and a
\* succeeding source, and whose later batch succeeded
C6_Witness ==
    /\ bpc = "returned"
    /\ Len(loaded) = 4
    /\ batchSize = 3
    /\ behaviour = <<"throws", "failed", "ok", "ok">>
    /\ Len(results) = 4
    /\ results[4].success

\* C7: syncAllSources() returns exactly one result per loaded source, the
\* i-th result belonging to the i-th source, whatever the completion order.
C7_ResultsInOrder ==
    bpc = "returned" =>
       /\ Len(results) = Len(loaded)
       /\ \A i \in 1..Len(loaded) : results[i].sourceId = loaded[i]

\* a returned call whose last batch settled in reverse dispatch order
C7_Witness ==
    /\ bpc = "returned"
    /\ Len(loaded) = 6
    /\ batchSize = 3
    /\ settleOrder = <<3, 2, 1>>
    /\ results[6].sourceId = 6

\* C8: for maxRetries >= 1, when every attempt fails, syncSource resolves
\* with success:false, monitorsUpdated 0, heartbeatsFetched 0 and the message
\* of the last attempt's error, and it never rejects.
C8_ExhaustedRetriesResolve ==
    (options.maxRetries >= 1 /\ Len(failures) = options.maxRetries) =>
       /\ spc = "returned"
       /\ thrown = NotThrown
       /\ syncResult =
             [sourceId |-> TheSource.id, success |-> FALSE,
              monitorsUpdated |-> 0, heartbeatsFetched |-> 0,
              error |-> failures[Len(failures)]]

\* C9: if fetch and reconcile succeed but the sync_history or sync_metrics
\* write fails, syncSource still resolves with success:true and the counts
\* of the successful attempt: a call that ended after an attempt succeeded
\* resolved with success:true.
C9_BookkeepingFailureTolerated ==
    (/\ spc \in {"returned", "rejected"}
     /\ options.maxRetries >= 1
     /\ Len(failures) < options.maxRetries) =>
       /\ spc = "returned"
       /\ syncResult.success
       /\ syncResult.monitorsUpdated = attemptMonitors

\* C10: when includeHeartbeats is true and the heartbeat-endpoint fetch
\* throws, times out or answers a non-success status after the monitors
\* were reconciled, the attempt is not retried, the heartbeat cache is left
\* unchanged and syncSource returns success:true with heartbeatsFetched = 0
\* and the monitorsUpdated of that attempt.
C10_HeartbeatFailureTolerated ==
    hbOutcome \in {"throws", "timeout", "not_ok"} =>
       /\ spc = "returned"
       /\ Len(failures) = attempt - 1
       /\ Len(backoffs) = attempt - 1
       /\ hbCache = [i \in {TheSource.id, OtherSource.id} |-> StaleEntry(i)]
       /\ syncResult.success
       /\ syncResult.heartbeatsFetched = 0
       /\ syncResult.monitorsUpdated = Len(MonitorEntries(remote))
       /\ syncResult.monitorsUpdated = attemptMonitors

\* the heartbeat fetch of a second attempt timed out after two monitors
\* were reconciled, and the call returned
C10_Witness ==
    /\ hbOutcome = "timeout"
    /\ spc = "returned"
    /\ attempt = 2
    /\ syncResult.monitorsUpdated = 2

\* C11: calling syncSource again against an unchanged page leaves the
\* Monitor rows (keys, name, url, type, interval) as the first reconciling
\* call left them, and the call with inline heartbeats stores no second
\* Heartbeat row for a (monitor id, source id, timestamp) already stored.
C11_ResyncIdempotent ==
    /\ baseline # NoBaseline =>
          /\ monitors = baseline.monitors
          /\ heartbeatRows = baseline.heartbeatRows
    /\ \A i, j \in 1..Len(heartbeatRows) :
          HeartbeatKey(heartbeatRows[i]) = HeartbeatKey(heartbeatRows[j])
             => i = j

\* a second inline call over a published page of two monitors whose
\* heartbeats an earlier call stored
C11_Witness ==
    /\ path = "inline"
    /\ syncCount = 2
    /\ thrown = NotThrown
    /\ baseline # NoBaseline
    /\ Len(heartbeatRows) >= 3
    /\ \E r \in monitors :
          r.source_id = TheSource.id /\ r.id = 2 /\ r.url = Null

\* the call in which the monitors endpoint answered 503 at each of three
\* attempts
AllAttemptsUnavailable ==
    /\ options.maxRetries = 3
    /\ Len(failures) = 3
    /\ \A k \in 1..3 : failures[k] = HttpMessage(TheSource.slug)

\* what such a call leaves besides the delays: a success:false result whose
\* error carries the status text and the slug, and one failed SyncRun
UnavailableOutcome ==
    /\ spc = "returned"
    /\ ~syncResult.success
    /\ \E i \in 1..Len(syncResult.error) :
          syncResult.error[i] = "Service Unavailable"
    /\ \E i \in 1..Len(syncResult.error) :
          syncResult.error[i] = TheSource.slug
    /\ Len(syncHistory) = 1
    /\ syncHistory[1].status = "failed"

\* C12 as stated: with maxRetries = 3 and HTTP 503 at every attempt, the
\* call waits delays of 1 s, 2 s and 4 s between attempts, returns
\* success:false with the status text and the slug in the error, and records
\* exactly one failed SyncRun.
C12_DelaysOneTwoFour ==
    AllAttemptsUnavailable =>
       /\ backoffs = <<1000, 2000, 4000>>
       /\ UnavailableOutcome

\* C12 amended: the three attempts are separated by two delays, of 1 s and
\* 2 s; no delay follows the last attempt.
C12_DelaysOneTwo ==
    AllAttemptsUnavailable =>
       /\ backoffs = <<1000, 2000>>
       /\ UnavailableOutcome

\* a call of three attempts, each answered 503
C12_Witness ==
    /\ AllAttemptsUnavailable
    /\ attempt = 3
    /\ spc = "returned"

\* C13: after start(overrides) returns, the config in memory and the
\* persisted config both have intervalSeconds >= 30; start({intervalSeconds:
\* 5}) leaves the persisted value at 30.
C13_StartClamps ==
    (called.op = "start" /\ called.arg # Undefined) =>
       /\ config.intervalSeconds >= MinIntervalSeconds
       /\ settings # NoRow
       /\ settings.intervalSeconds >= MinIntervalSeconds
       /\ ("intervalSeconds" \in DOMAIN called.arg
             /\ called.arg.intervalSeconds = 5) =>
                settings.intervalSeconds = 30

\* start({intervalSeconds: 5}) returned
C13_Witness ==
    /\ called.op = "start"
    /\ called.arg = [intervalSeconds |-> 5]
    /\ config.intervalSeconds = 30
    /\ settings # NoRow
    /\ settings.intervalSeconds = 30
    /\ isRunning

\* C14: in every reachable state the interval is at least 30 seconds, in
\* memory and persisted, and no recurring timer has a shorter period: a value
\* below the floor given to start() or updateConfig(), running or stopped,
\* is clamped and never stored or used.
C14_IntervalFloor ==
    /\ config.intervalSeconds >= MinIntervalSeconds
    /\ settings # NoRow => settings.intervalSeconds >= MinIntervalSeconds
    /\ \A t \in timers :
          t.kind = "interval" => t.ms >= MinIntervalSeconds * 1000

\* C15: a scheduler-route request that would set the interval below 30
\* seconds, by action "start" or by action "update-config", is answered with
\* status 400 and leaves the config, the persisted config and the timers
\* unchanged.
C15_RouteRejectsLowInterval ==
    [][(/\ called'.op = "POST"
        /\ called'.arg.action \in {"start", "update-config"}
        /\ "interval" \in DOMAIN called'.arg
        /\ called'.arg.interval \in 1..(MinIntervalSeconds - 1)) =>
          /\ response' = 400
          /\ UNCHANGED <<config, settings, timers, timeoutId, intervalId,
                         isRunning>>]_vars

\* C16: the enabled flag is read when a timer fires: a fire that finds it
\* false starts no sync and leaves lastRun unchanged, a fire that finds it
\* true starts a run and stamps lastRun, whatever the flag was when the
\* timer was armed.
C16_EnabledReadAtFire ==
    [][called'.op = "fire" =>
          IF config.enabled
          THEN /\ lastRun' = nextRun
               /\ \E r \in runs' \ runs : r.id = nextRun
          ELSE /\ lastRun' = lastRun
               /\ runs' = runs
               /\ nextRun' = nextRun]_vars

\* the first run ever started is started by a fire of the recurring timer:
\* the warm-up fire that armed that timer found the flag false, and the flag
\* was set by an updateConfig that left the timer armed
C16_Witness ==
    /\ called.op = "fire"
    /\ called.arg.kind = "interval"
    /\ called.arg.id = intervalId
    /\ lastRun = 1
    /\ nextRun = 2
    /\ [id |-> 1, from |-> "interval"] \in runs

\* C17: updateConfig with a different intervalSeconds while running cancels
\* the armed recurring timer, so that no timer with another period than the
\* new interval stays armed; while not running, updateConfig arms no timer
\* and leaves isRunning false.
C17_UpdateRearms ==
    [][called'.op = "updateConfig" =>
          IF isRunning
          THEN ("intervalSeconds" \in DOMAIN called'.arg
                  /\ called'.arg.intervalSeconds # config.intervalSeconds) =>
                     \A t \in timers' :
                        t.kind = "interval" =>
                           t.ms = config'.intervalSeconds * 1000
          ELSE timers' = timers /\ ~isRunning']_vars

\* C18: syncSourceNow(id) and syncAllSourcesNow() set lastRun to the call
\* time before they dispatch any sync; syncSourceNow with an id that has no
\* source row raises not-found, starts no sync and leaves lastRun and the
\* job map unchanged.
C18_ManualSyncStampsLastRun ==
    [][nextRun' # nextRun =>
          LET id == called'.arg.source_id
          IN IF id # 0 /\ ~\E k \in 1..Len(sourceRows) : sourceRows[k] = id
             THEN /\ response' = 500
                  /\ UNCHANGED <<lastRun, currentJobs, inflight, bpc>>
             ELSE /\ lastRun' = nextRun
                  /\ id # 0 => /\ id \in currentJobs'
                               /\ ManualJob(id) \in inflight' \ inflight
                  /\ id = 0 => /\ bpc' # "idle"
                               /\ loaded' = sourceRows]_vars

\* syncSourceNow with an unknown id was refused while an earlier manual
\* sync, which stamped lastRun, is still in flight
C18_Witness ==
    /\ called.op = "sync"
    /\ called.arg.source_id = Len(sourceRows) + 1
    /\ response = 500
    /\ lastRun = 1
    /\ nextRun = 3
    /\ currentJobs = {1}
    /\ ManualJob(1) \in inflight

\* C19: stop() aborts no sync in flight: it leaves the job map, the syncs
\* in flight, the progress of the running syncAllSources(), lastRun and the
\* config unchanged, and the running call still dispatches its remaining
\* batches and returns one result per source.
C19_StopAbortsNothing ==
    [][/\ (isRunning /\ ~isRunning') =>
             UNCHANGED <<currentJobs, inflight, lastRun, config, settings,
                         bpc, batchNo, promises, results>>
       /\ bpc' = "returned" =>
             /\ Len(results') = Len(loaded')
             /\ \A i \in 1..Len(loaded') :
                   \E k \in 1..Len(dispatched') :
                      \E j \in 1..Len(dispatched'[k]) :
                         dispatched'[k][j] = loaded'[i]]_vars

\* stop() was the last call, made after the POST that started the running
\* syncAllSources(); the call has since pushed a result and has its second
\* batch in flight
C19_Witness ==
    /\ called.op = "stop"
    /\ ~isRunning
    /\ timers = {}
    /\ bpc = "batch"
    /\ batchNo = 2
    /\ inflight # {}
    /\ Len(results) = 1

\* C20: over a window holding exactly the recorded samples (none included),
\* getOverallMetrics and getSourceMetrics return successfulSyncs = the number
\* of success samples, failedSyncs = the number of failure samples, and
\* totalSyncs = their sum.
C20_CountsAddUp ==
    called.op \in {"getOverallMetrics", "getSourceMetrics"} =>
        LET inWindow == {i \in 1..Len(samples) :
                            /\ InRange(samples[i], called.arg.timeRange)
                            /\ called.op = "getSourceMetrics" =>
                                  samples[i].source_id = called.arg.id}
            ok == Cardinality({i \in inWindow : samples[i].success = 1})
            bad == Cardinality({i \in inWindow : samples[i].success = 0})
        IN /\ returned.successfulSyncs = <<ok>>
           /\ returned.failedSyncs = <<bad>>
           /\ returned.totalSyncs = ok + bad

\* C21: over a non-empty multiset of successful durations
\* getPerformanceMetrics returns, for p in 50, 90, 95, 99, the element at
\* index ceil(n * p) - 1 (clamped to [0, n-1]) of the ascending durations,
\* with p50 <= p90 <= p95 <= p99 <= max and min <= average <= max; rows of
\* failed runs and rows outside the window influence none of the values.
C21_PercentilesNearestRank ==
    called.op = "getPerformanceMetrics" =>
        LET ok == {i \in DOMAIN samples :
                      /\ InRange(samples[i], called.arg.timeRange)
                      /\ samples[i].success = 1}
            n == Cardinality(ok)
            Below(v) ==
                Cardinality({i \in ok : samples[i].duration_ms < v})
            AtMost(v) ==
                Cardinality({i \in ok : samples[i].duration_ms <= v})
            \* v stands at index k (from 0) of the ascending durations
            AtIndex(v, k) ==
                /\ \E i \in ok : samples[i].duration_ms = v
                /\ Below(v) <= k
                /\ k < AtMost(v)
            Index(pct) ==
                LET raw == CeilDiv(n * pct, 100) - 1
                IN IF raw < 0 THEN 0 ELSE IF raw > n - 1 THEN n - 1 ELSE raw
        IN n > 0 =>
             /\ AtIndex(returned.p50, Index(50))
             /\ AtIndex(returned.p90, Index(90))
             /\ AtIndex(returned.p95, Index(95))
             /\ AtIndex(returned.p99, Index(99))
             /\ AtIndex(returned.min, 0)
             /\ AtIndex(returned.max, n - 1)
             /\ returned.p50 <= returned.p90
             /\ returned.p90 <= returned.p95
             /\ returned.p95 <= returned.p99
             /\ returned.p99 <= returned.max
             /\ returned.min <= returned.average
             /\ returned.average <= returned.max

\* a query over more than a hundred unordered successful durations, with
\* failed rows slower than all of them, that tells the four percentiles and
\* the maximum apart
C21_Witness ==
    /\ called.op = "getPerformanceMetrics"
    /\ Cardinality({i \in DOMAIN samples :
                       /\ InRange(samples[i], called.arg.timeRange)
                       /\ samples[i].success = 1}) > 100
    /\ \E i \in DOMAIN samples :
          samples[i].success = 0 /\ samples[i].duration_ms > returned.max
    /\ \E i \in DOMAIN samples :
          i > 1 /\ samples[i].success = 1 /\ samples[i - 1].success = 1
                /\ samples[i].duration_ms < samples[i - 1].duration_ms
    /\ returned.p50 < returned.p90
    /\ returned.p90 < returned.p95
    /\ returned.p95 < returned.p99
    /\ returned.p99 < returned.max

\* the samples of the window behind a health check: how many, how many of
\* them successful, the sum of their durations
WindowSamples == {i \in DOMAIN samples : samples[i].recent}
WindowSuccesses == {i \in WindowSamples : samples[i].success = 1}

RECURSIVE WindowDurationSum(_)
WindowDurationSum(S) ==
    IF S = {}
    THEN 0
    ELSE LET i == CHOOSE x \in S : TRUE
         IN samples[i].duration_ms + WindowDurationSum(S \ {i})

\* C22: getHealthCheck returns healthy exactly when it raises no issue; with
\* an issue it returns unhealthy when the success rate is below 0.5 and
\* degraded otherwise. A success rate of 0.4 gives unhealthy; a success rate
\* of 0.95 with the last sync within the hour and an average duration of at
\* most 30000 ms gives healthy and no issue.
C22_HealthVerdict ==
    called.op = "getHealthCheck" =>
        LET total == Cardinality(WindowSamples)
            ok == Cardinality(WindowSuccesses)
        IN /\ returned.status = "healthy" <=> returned.issues = <<>>
           /\ returned.issues # <<>> =>
                 returned.status =
                    IF total > 0 /\ 2 * ok < total
                    THEN "unhealthy"
                    ELSE "degraded"
           /\ (total > 0 /\ 10 * ok = 4 * total) =>
                 returned.status = "unhealthy"
           /\ (/\ total > 0
               /\ 100 * ok = 95 * total
               /\ \E i \in WindowSamples : samples[i].hour
               /\ WindowDurationSum(WindowSamples)
                     <= MaxAverageDurationMs * total) =>
                 /\ returned.status = "healthy"
                 /\ returned.issues = <<>>

\* a health check over nineteen successes and one failure, the last sync
\* within the hour, the average at the limit: healthy
C22_Witness ==
    /\ called.op = "getHealthCheck"
    /\ Cardinality(WindowSamples) = 20
    /\ Cardinality(WindowSuccesses) = 19
    /\ \E i \in WindowSamples : samples[i].hour
    /\ WindowDurationSum(WindowSamples) = MaxAverageDurationMs * 20
    /\ returned.status = "healthy"

\* C23: whenever the window holds no successful sync of the last hour,
\* getHealthCheck returns a status other than healthy and lists an issue
\* for it, also when failed syncs of the last hour are recorded and the
\* success rate is at least 0.9.
C23_NoRecentSuccessIsAnIssue ==
    (/\ called.op = "getHealthCheck"
     /\ ~ \E i \in WindowSuccesses : samples[i].hour) =>
        /\ returned.status # "healthy"
        /\ \E k \in DOMAIN returned.issues :
              returned.issues[k] \in {NoRecentIssue, NoSyncsIssue}

\* the entry last set under k was set with {ttl: t} and the clock is past
\* writeTime + t
SetAndExpired(k) ==
    /\ lastSet[k] # NoCacheEntry
    /\ "ttl" \in DOMAIN lastSet[k].options
    /\ now > lastSet[k].time + lastSet[k].options.ttl

\* C24: after set(key, value, {ttl: t}) every get(key) later than
\* writeTime + t returns empty, whichever layer still holds the entry, and
\* after a sweep later than writeTime + t the entry is in neither the
\* in-process map nor the durable table.
C24_ExpiredEntriesVanish ==
    \A k \in PrefixedKeys :
        SetAndExpired(k) =>
            /\ (called.op = "get" /\ called.arg = k) => got = Empty
            /\ called.op = "sweep" =>
                  /\ memoryCache[k] = NoCacheEntry
                  /\ cacheEntries[k] = NoCacheEntry

\* C25: get(key) returns the in-process entry when it is present and
\* unexpired; otherwise the durable entry when it is present and unexpired,
\* copying it into the in-process map; otherwise empty. Every get increments
\* exactly one of the hit and miss counters, the hit counter if and only if
\* a value is returned.
C25_ReadThrough ==
    [][called'.op = "get" =>
          LET k == called'.arg
              m == memoryCache[k]
              r == cacheEntries[k]
              Live(e) == e # NoCacheEntry /\ ~(now > e.timestamp + e.ttl)
          IN /\ Live(m) =>
                   /\ got' = <<m.data>>
                   /\ UNCHANGED <<memoryCache, cacheEntries>>
             /\ (~Live(m) /\ Live(r)) =>
                   /\ got' = <<Parse(r.data)>>
                   /\ memoryCache' =
                         [memoryCache EXCEPT ![k] =
                             [data |-> Parse(r.data),
                              timestamp |-> r.timestamp,
                              ttl |-> r.ttl, key |-> k]]
                   /\ UNCHANGED cacheEntries
             /\ (~Live(m) /\ ~Live(r)) => got' = Empty
             /\ \/ hitCount' = hitCount + 1 /\ missCount' = missCount
                \/ hitCount' = hitCount /\ missCount' = missCount + 1
             /\ hitCount' = hitCount + 1 <=> got' # Empty]_vars

\* a get() answered from the durable table: the key was never set by this
\* process, the value is returned, counted as a hit and now in the map
C25_Witness ==
    /\ called.op = "get"
    /\ lastSet[called.arg] = NoCacheEntry
    /\ got # Empty
    /\ hitCount = 1
    /\ missCount = 0
    /\ memoryCache[called.arg] # NoCacheEntry
    /\ memoryCache[called.arg].data = got[1]

\* the step in which an attempt read the monitors payload: 'updating-db' is
\* the next status published
PayloadRead ==
    /\ spc \in {"fetching-monitors", "reading-monitors"}
    /\ Len(progress') > Len(progress)
    /\ progress'[Len(progress) + 1] = "updating-db"

\* C26: a monitors payload that is not marked published counts as zero
\* monitors: no step of the call changes a Monitor row, the attempt that
\* reads the payload does not fail (no retry follows: it goes on to the
\* heartbeat fetch or returns, in the same attempt, with zero monitors
\* counted), and the call that read it returns success:true with
\* monitorsUpdated = 0
C26_UnpublishedIsZeroMonitors ==
    [][~remote.published =>
          /\ monitors' = monitors
          /\ PayloadRead =>
                /\ spc' \in {"fetching-heartbeats", "returned"}
                /\ attempt' = attempt
                /\ failures' = failures
                /\ backoffs' = backoffs
                /\ attemptMonitors' = 0
          /\ (spc' = "returned" /\ Len(failures') < attempt') =>
                /\ syncResult'.success
                /\ syncResult'.monitorsUpdated = 0
                /\ syncResult'.error = NoError]_vars

\* an unpublished page that lists two monitors was read on a retry, the call
\* returned success with no monitor counted and the stored rows are there
C26_Witness ==
    /\ spc = "returned"
    /\ ~remote.published
    /\ Len(remote.monitorList) = 2
    /\ Len(failures) = 1
    /\ attempt = 2
    /\ syncResult.success
    /\ syncResult.monitorsUpdated = 0
    /\ monitors # {}

\* C27: every remote call of an attempt is bounded by options.timeout:
\* whenever an attempt awaits a remote response, its status line or the rest
\* of its body, the abort timer is pending, so that a response that is not
\* complete in time aborts the request and fails the attempt
C27_RemoteCallsBounded ==
    spc \in {"fetching-monitors", "reading-monitors", "fetching-heartbeats",
             "reading-heartbeats"} => abortTimer

\* C28: withRetry with maxRetries >= 1 runs the operation at most maxRetries
\* times and one at a time, each attempt but the current one having failed;
\* it sleeps baseDelay * 2^(k-1) after the k-th failure for every
\* k < maxRetries and not after the last one; a call that returned success
\* returned the value of its first attempt that did not fail; a call whose
\* maxRetries attempts failed returned the error of the last attempt, and no
\* call returned failure before that
C28_RetryContract ==
    1 <= options.maxRetries =>
       /\ attempt <= options.maxRetries
       /\ Len(failures) \in {attempt - 1, attempt} \cap Nat
       /\ Len(backoffs) = IF Len(failures) < options.maxRetries
                          THEN Len(failures)
                          ELSE options.maxRetries - 1
       /\ \A k \in DOMAIN backoffs : backoffs[k] = BaseDelayMs * 2 ^ (k - 1)
       /\ lastError = IF failures = <<>> THEN NoError
                      ELSE failures[Len(failures)]
       /\ (spc = "returned" /\ syncResult.success) =>
             /\ Len(failures) = attempt - 1
             /\ syncResult.monitorsUpdated = attemptMonitors
       /\ Len(failures) = options.maxRetries =>
             /\ spc = "returned"
             /\ ~syncResult.success
             /\ syncResult.error = failures[options.maxRetries]
       /\ (spc = "returned" /\ ~syncResult.success) =>
             Len(failures) = options.maxRetries

\* three attempts failed, the first and the last with different errors: two
\* sleeps of 1 s and 2 s, and the error returned is the last one
C28_Witness ==
    /\ spc = "returned"
    /\ options.maxRetries = 3
    /\ Len(failures) = 3
    /\ failures[1] # failures[3]
    /\ backoffs = <<BaseDelayMs, 2 * BaseDelayMs>>
    /\ syncResult.error = failures[3]

\* the place of a progress status on the path of a run; the two terminal
\* statuses share the last place
StatusRank(status) ==
    CASE status = "pending" -> 1
      [] status = "fetching-monitors" -> 2
      [] status = "updating-db" -> 3
      [] status = "fetching-heartbeats" -> 4
      [] status \in {"completed", "failed"} -> 5

\* C29: the progress statuses published for one syncSource call are a path
\* of the run state machine: the first is pending, each one is further along
\* than the one before (so nothing follows a terminal status), and once the
\* call has returned the last one is completed for a success:true result and
\* failed for a success:false result
C29_ProgressIsAPath ==
    /\ progress # <<>> => progress[1] = "pending"
    /\ \A i \in 1..(Len(progress) - 1) :
          StatusRank(progress[i]) < StatusRank(progress[i + 1])
    /\ spc = "returned" =>
          /\ progress # <<>>
          /\ progress[Len(progress)] =
                IF syncResult.success THEN "completed" ELSE "failed"

\* C30: a syncSource call that returned has recorded exactly one sync_history
\* row and exactly one sync_metrics sample, and both agree with the result:
\* completed and success with the counts of the result when it has
\* success:true, failed and no success with its error message otherwise
C30_OneRunOneSample ==
    spc = "returned" =>
       /\ Len(syncHistory) = 1
       /\ Len(syncMetrics) = 1
       /\ syncHistory[1] =
             HistoryRow(IF syncResult.success THEN "completed" ELSE "failed",
                        syncResult.monitorsUpdated,
                        syncResult.heartbeatsFetched, syncResult.error)
       /\ syncMetrics[1] =
             MetricsRow(syncResult.success, syncResult.monitorsUpdated,
                        syncResult.heartbeatsFetched, syncResult.error)

\* C31: a source's entry is in the job map from the step that dispatches its
\* sync and is removed by the step in which that sync settles, fulfilled or
\* rejected; so whenever no dispatched sync is in flight the map is empty and
\* getStatus() lists no current job
C31_JobsTrackDispatch ==
    [][/\ \A x \in inflight' \ inflight : x.src \in currentJobs'
       /\ \A x \in inflight \ inflight' : x.src \notin currentJobs'
       /\ inflight' = {} =>
             /\ currentJobs' = {}
             /\ StatusJobs(currentJobs') = {}]_vars

\* a batch in which a sync rejected has returned, nothing is in flight and
\* the job map is empty
C31_Witness ==
    /\ bpc = "returned"
    /\ \E k \in DOMAIN behaviour : behaviour[k] = "throws"
    /\ \E k \in DOMAIN behaviour : behaviour[k] = "ok"
    /\ inflight = {}
    /\ currentJobs = {}

\* the monitor rows that belong to other sources than the one synced
RowsOfOthers(rows) == {r \in rows : r.source_id # TheSource.id}

\* C32: no step of a syncSource call changes a Monitor row of another
\* source, and when the call returns success against a published payload
\* every entry of the payload has exactly one Monitor row keyed (entry id,
\* source id), holding the entry's name and its url, type and interval (NULL
\* where the entry has none), and monitorsUpdated is the number of entries
\* the successful attempt processed, inserted and updated rows alike
C32_PublishedPageReconciled ==
    [][/\ RowsOfOthers(monitors') = RowsOfOthers(monitors)
       /\ (spc' = "returned" /\ syncResult'.success /\ remote.published) =>
             /\ \A k \in DOMAIN remote.monitorList :
                   LET m == remote.monitorList[k]
                       rows == {r \in monitors' :
                                   /\ r.id = m.id
                                   /\ r.source_id = TheSource.id}
                   IN /\ Cardinality(rows) = 1
                      /\ \A r \in rows :
                            /\ r.name = m.name
                            /\ r.url = IF m.url = "" THEN Null ELSE <<m.url>>
                            /\ r.type = IF m.type = "" THEN Null
                                        ELSE <<m.type>>
                            /\ r.interval = IF m.interval = 0 THEN Null
                                            ELSE <<m.interval>>
             /\ syncResult'.monitorsUpdated = Len(remote.monitorList)
             /\ syncResult'.monitorsUpdated = attemptMonitors']_vars

\* a published page of two monitors was reconciled on a retry, next to a row
\* of another source with the same monitor id
C32_Witness ==
    /\ spc = "returned"
    /\ syncResult.success
    /\ remote.published
    /\ Len(remote.monitorList) = 2
    /\ Len(failures) >= 1
    /\ syncResult.monitorsUpdated = 2
    /\ \E r \in monitors : r.source_id = OtherSource.id /\ r.id = 1
    /\ \E r \in monitors : r.source_id = TheSource.id /\ r.id = 2
                              /\ r.url = Null /\ r.interval = Null

\* C33: no step of a syncSource call writes the monitor_heartbeats table or
\* the cache entry of another source; the cache entry of the source is
\* written only by the step in which the heartbeat endpoint answered
\* successfully, which stores the fetched list under the source id, and the
\* call then returns heartbeatsFetched = the number of monitor ids in that
\* list; with includeHeartbeats false no heartbeat request is issued and the
\* cache is not written
C33_HeartbeatsOnlyCached ==
    [][/\ heartbeatRows' = heartbeatRows
       /\ hbCache'[OtherSource.id] = hbCache[OtherSource.id]
       /\ hbCache' # hbCache =>
             /\ options.includeHeartbeats
             /\ spc \in {"fetching-heartbeats", "reading-heartbeats"}
             /\ hbOutcome' = "ok"
       /\ (spc \in {"fetching-heartbeats", "reading-heartbeats"}
             /\ spc' # "reading-heartbeats" /\ hbOutcome' = "ok") =>
             /\ hbCache'[TheSource.id] =
                   [heartbeatList |-> remote.heartbeatIds]
             /\ spc' = "returned"
             /\ syncResult'.heartbeatsFetched =
                   Cardinality(remote.heartbeatIds)
       /\ ~options.includeHeartbeats =>
             /\ spc' \notin {"fetching-heartbeats", "reading-heartbeats"}
             /\ hbOutcome' = "none"
             /\ hbCache' = hbCache]_vars

\* the heartbeat endpoint answered with the heartbeats of two monitors: the
\* entry of the source holds them, the entry of the other source is the one
\* it had, and the result counts two
C33_Witness ==
    /\ spc = "returned"
    /\ options.includeHeartbeats
    /\ hbOutcome = "ok"
    /\ hbCache[TheSource.id] = [heartbeatList |-> remote.heartbeatIds]
    /\ Cardinality(remote.heartbeatIds) = 2
    /\ syncResult.heartbeatsFetched = 2
    /\ hbCache[OtherSource.id] = StaleEntry(OtherSource.id)

\* C34: a subscriber that throws changes nothing for the sync (no
\* updateProgress() call throws), every other subscriber registered when the
\* event was published has received it, and no subscriber is called after its
\* unregister function was called
C34_SubscribersIsolated ==
    /\ ~escaped
    /\ threw # {} => \A s \in audience : published \in received[s]
    /\ late = {}

\* the cache key of the query call c, and what the query of a key computes
\* from the rows
QueryKey(c) ==
    CacheKey(CASE c.op = "getOverallMetrics" -> OverallKey
               [] c.op = "getPerformanceMetrics" -> PerformanceKey
               [] OTHER -> SourceKey(c.arg.id),
             c.arg.timeRange)
Computed(key, rows) ==
    CASE key[1] = OverallKey ->
           Metrics(SyncStats(InWindow(rows, key[2])))
      [] key[1] = PerformanceKey ->
           PerformanceMetrics(OrderByDuration(SuccessRows(rows, key[2])))
      [] OTHER -> Metrics(SyncStats(OfSource(rows, key[1], key[2])))

\* C35: recording a sample discards every cached aggregation, and every
\* aggregation query returns what its query computes from the samples
\* recorded by then, never a result computed before one of them: it reuses a
\* cached result only of its own (query kind, window) key and only while
\* that result is younger than the cache interval, otherwise it computes
\* the result and caches it under that key alone
C35_NoStaleAggregation ==
    [][/\ called'.op = "recordSyncMetrics" =>
             \A k \in CacheKeys : metricsCache'[k] = NoCached
       /\ called'.op \in {"getOverallMetrics", "getPerformanceMetrics",
                          "getSourceMetrics"} =>
             LET key == QueryKey(called')
             IN /\ returned' = Computed(key, samples')
                /\ \A k \in CacheKeys \ {key} :
                      metricsCache'[k] = metricsCache[k]
                /\ IF /\ metricsCache[key] # NoCached
                      /\ now - metricsCache[key].timestamp < CacheTTL
                   THEN /\ returned' = metricsCache[key].data
                        /\ metricsCache'[key] = metricsCache[key]
                   ELSE metricsCache'[key] =
                           [data |-> returned', timestamp |-> now]]_vars

\* a query of the 7-day window answered from a result cached just under a
\* minute before, after a sample was recorded: it counts the new sample with
\* the stored ones of the week, while the cached result of the 24-hour
\* window is another one
C35_Witness ==
    /\ called.op = "getOverallMetrics"
    /\ called.arg.timeRange = "7d"
    /\ Len(samples) = Len(AgedTable) + 1
    /\ returned.totalSyncs = Len(samples) - 1
    /\ metricsCache[CacheKey(OverallKey, "7d")] # NoCached
    /\ now - metricsCache[CacheKey(OverallKey, "7d")].timestamp = CacheTTL - 1
    /\ metricsCache[CacheKey(OverallKey, "24h")] # NoCached
    /\ metricsCache[CacheKey(OverallKey, "24h")].data # returned

\* the rows a query at the time t with the window of range is to count:
\* those recorded later than t minus the length of the window
RecordedInWindow(rows, t, range) ==
    {i \in DOMAIN rows : rows[i].recordedAt > t - WindowMs(range)}

\* C36: a query over a window counts a sample if and only if the sample was
\* recorded later than now minus the length of the window
C36_WindowCountsRecentSamples ==
    called.op = "getOverallMetrics" =>
        returned.totalSyncs =
            Cardinality(RecordedInWindow(samples, now, called.arg.timeRange))

\* C37: syncAllSources() returns for every concurrentSyncs that can be
\* stored: every batch after the first starts further along the source list
\* than the batch before it, so that the loop runs out of sources
C37_EveryBatchAdvances ==
    [][(batchNo >= 1 /\ batchNo' > batchNo) => bi' > bi]_vars

\* C38: getStatus().currentJobs lists a source if and only if a sync of that
\* source dispatched by the scheduler is in flight, overlapping syncs of one
\* source included
C38_JobsListEveryInflightSource ==
    \A id \in 1..MaxManualSources :
        ([sourceId |-> id] \in StatusJobs(currentJobs))
            <=> (\E x \in inflight : x.src = id)

\* getSyncStatus()
GetSyncStatus == [isSyncing |-> isSyncing, currentSyncId |-> currentSyncId]

\* C39: getSyncStatus() reports isSyncing = true with a currentSyncId that is
\* not null if and only if a syncSource call is in flight
C39_StatusTracksInflight ==
    (GetSyncStatus.isSyncing /\ GetSyncStatus.currentSyncId # NoSync)
        <=> inflight # {}

\* C40: with maxRetries <= 0 a syncSource() call performs no fetch and still
\* resolves, with a success:false result, after recording one failed
\* sync_history row and one failure sample
C40_NoAttemptStillResolves ==
    (options.maxRetries <= 0 /\ spc # "idle") =>
        /\ attempt = 0
        /\ ~abortTimer
        /\ spc = "returned"
        /\ thrown = NotThrown
        /\ ~syncResult.success
        /\ Len(syncHistory) = 1
        /\ syncHistory[1].status = "failed"
        /\ Len(syncMetrics) = 1
        /\ ~syncMetrics[1].success

====
